---- MODULE Spec2Model ----
(***************************************************************************)
(* Branching and checkpointing of conversation histories                   *)
(* (scripts/lib/db.py, scripts/lib/checkpoint.py).                         *)
(*                                                                         *)
(* The relational store is modelled by its committed rows (what any reader *)
(* connection sees) plus, per process, the rows written inside an open     *)
(* transaction.  The checkpoint registry is one JSON file holding a map    *)
(* from the key "<conversation_id>:<name>" to a checkpoint record.         *)
(* Every library call is split at the points where it touches the store or *)
(* the file, so that the external writer may act in between.               *)
(* The memory store (scripts/lib/memory.py) is a second JSON file, and     *)
(* wait_for_completion (scripts/lib/shelley_api.py) a polling loop over    *)
(* the answers of the agent service.                                       *)
(***************************************************************************)
EXTENDS Integers, Sequences, FiniteSets, TLC

\* ------------------------------------------------------------------ bounds
MaxSeq == 2        \* largest sequence_id the external writer assigns
MaxMsgId == 4      \* size of the pool message ids (uuid4) are drawn from
MaxCheckpoints == 3 \* most records the checkpoint file gets to hold
MaxTime == 1       \* last value of the clock

MaxNotes == 2      \* most notes the memory file gets to hold

\* ------------------------------------------------------------- value sets
Procs == {"p1", "p2"}
MainProcs == {"p1"}

\* Python None / SQL NULL is the empty tuple, a present value v is <<v>>.
NULL == <<>>
Some(v) == <<v>>
IsNull(o) == o = <<>>
Val(o) == o[1]

\* ids generate_conversation_id can return
IdOrder == <<"c1", "c2", "c3">>
IdPool == {IdOrder[i] : i \in 1..Len(IdOrder)}
\* ids generate_message_id can return
MsgIdPool == 1..MaxMsgId
\* conversation ids a caller may pass
ArgConvIds == IdPool \cup {"c1:a"}
\* checkpoint names a caller may pass
Names == {"a", "a:a"}
RestoreName == "a"
Slugs == {NULL, Some("s")}
\* slug and cwd of the conversation the agent service created: both set,
\* or both NULL
SourceMeta == {[slug |-> NULL, cwd |-> NULL],
               [slug |-> Some("s"), cwd |-> Some("/w")]}
Cutoffs == 0..(MaxSeq + 1)
SeqArgs == {NULL, Some(0), Some(MaxSeq)}

Min(S) == CHOOSE x \in S : \A y \in S : x <= y
Max(S) == CHOOSE x \in S : \A y \in S : x >= y

\* --------------------------------------------------------- JSON payloads
\* A text column is modelled by its length and by what json.loads makes of
\* it: t = "invalid" (JSONDecodeError), "null", "num", "str", "list", "obj".
JInvalid == [t |-> "invalid"]
JNull == [t |-> "null"]
JNum(n) == [t |-> "num", n |-> n]
JStr(s) == [t |-> "str", s |-> s]
JList(l) == [t |-> "list", l |-> l]
JObj(o) == [t |-> "obj", o |-> o]
Text(len, json) == [len |-> len, json |-> json]

\* a text block {"Type": 2, "Text": s}
TextBlock(s) == JObj([Type |-> JNum(2), Text |-> JStr(s)])
\* a tool-use block {"Type": 5, "ToolName": s}
ToolBlock(s) == JObj([Type |-> JNum(5), ToolName |-> JStr(s)])
\* {"Content": [...]}
Content(blocks) == JObj([Content |-> JList(blocks)])

\* what the external writer puts into a message: type and the four payloads
MsgKinds ==
  { [type |-> "user",
     llm_data |-> Some(Text(40, Content(<<TextBlock(<<"h", "i">>)>>))),
     user_data |-> NULL, usage_data |-> NULL, display_data |-> Some("dd")],
    [type |-> "agent",
     llm_data |-> Some(Text(16, JObj([Content |-> JNull]))),
     user_data |-> Some("ud"), usage_data |-> Some(Text(20, JInvalid)),
     display_data |-> NULL] }

VARIABLES
  conversations,   \* committed rows of table conversations
  messages,        \* committed rows of table messages
  txConvs,         \* per process: conversation rows of its open transaction
  txMsgs,          \* per process: message rows of its open transaction
  ckfile,          \* the checkpoint file: key -> checkpoint record
  now,             \* the clock
  pc,              \* per process: where it is in its call
  loc,             \* per process: arguments and locals of its call
  ret,             \* per process: outcome of its last finished call
  interfered,      \* per process: the writer appended to its conversation
                   \*   since the call started
  memfile          \* the memory file: facts and notes

vars == <<conversations, messages, txConvs, txMsgs, ckfile, now, pc, loc,
          ret, interfered, memfile>>

dbvars == <<conversations, messages>>
txvars == <<txConvs, txMsgs>>

\* ------------------------------------------------------------- db.py reads
\* SELECT * FROM conversations WHERE conversation_id = ?  (None if no row)
get_conversation(conversation_id) ==
  LET rows == {r \in conversations : r.conversation_id = conversation_id}
  IN  IF rows = {} THEN NULL ELSE Some(CHOOSE r \in rows : TRUE)

\* ORDER BY sequence_id
RECURSIVE OrderBySequence(_)
OrderBySequence(rows) ==
  IF rows = {} THEN <<>>
  ELSE LET lo == Min({r.sequence_id : r \in rows})
           first == CHOOSE r \in rows : r.sequence_id = lo
       IN  <<first>> \o OrderBySequence(rows \ {first})

\* SELECT * FROM messages WHERE conversation_id = ? [AND sequence_id <= ?]
get_messages(conversation_id, max_sequence) ==
  OrderBySequence({m \in messages :
      /\ m.conversation_id = conversation_id
      /\ (IsNull(max_sequence) \/ m.sequence_id <= Val(max_sequence))})

\* dict.get(key, default) on a row that has the column: the default is used
\* only when the key is missing, never when its value is None
DictGet(hasKey, value, default) == IF hasKey THEN value ELSE default

\* x or default
OrElse(value, default) ==
  IF IsNull(value) \/ value = Some("") THEN default ELSE Val(value)

\* ------------------------------------------------- get_message_summary
\* A summary string is label \o body \o tail; body is a sequence of
\* characters.  raised = TRUE: the call ends in an exception that is not
\* caught (AttributeError, TypeError).
Summary(label, body, tail) ==
  [raised |-> FALSE, label |-> label, body |-> body, tail |-> tail]
SummaryRaised == [raised |-> TRUE, label |-> "", body |-> <<>>, tail |-> ""]

SummaryLimit == 100

\* bool(x) of a parsed JSON value
Truthy(j) ==
  CASE j.t = "null" -> FALSE
    [] j.t = "num" -> j.n # 0
    [] j.t = "str" -> Len(j.s) > 0
    [] j.t = "list" -> Len(j.l) > 0
    [] j.t = "obj" -> DOMAIN j.o # {}
    [] OTHER -> FALSE

\* d.get(key) of a parsed JSON object
ObjGet(j, key) == IF key \in DOMAIN j.o THEN j.o[key] ELSE JNull

\* the characters an f-string renders for a value that is not a string
Repr == <<"<", "r", "e", "p", "r", ">">>

\* a cut that adds the ellipsis from 100 characters on
Truncate_EllipsisAtLimit(label, j) ==
  CASE j.t = "str" ->
         Summary(label,
                 SubSeq(j.s, 1, IF Len(j.s) < SummaryLimit THEN Len(j.s)
                                ELSE SummaryLimit),
                 IF Len(j.s) >= SummaryLimit THEN "..." ELSE "")
    [] j.t = "list" ->
         Summary(label, Repr, IF Len(j.l) > SummaryLimit THEN "..." ELSE "")
    [] OTHER -> SummaryRaised

\* value[:100] and the ellipsis test len(value) > 100
Truncate(label, j) ==
  CASE j.t = "str" ->
         Summary(label,
                 SubSeq(j.s, 1, IF Len(j.s) < SummaryLimit THEN Len(j.s)
                                ELSE SummaryLimit),
                 IF Len(j.s) > SummaryLimit THEN "..." ELSE "")
    [] j.t = "list" ->
         Summary(label, Repr, IF Len(j.l) > SummaryLimit THEN "..." ELSE "")
    [] OTHER -> SummaryRaised

\* for content in data.get('Content', []): what the loop iterates over;
\* iterating a string gives its characters, a dict its keys
CanIterate(j) == j.t \in {"list", "str", "obj"}
IterItems(j) ==
  CASE j.t = "list" -> j.l
    [] j.t = "str" -> [i \in 1..Len(j.s) |-> JStr(<<j.s[i]>>)]
    [] j.t = "obj" -> IF DOMAIN j.o = {} THEN <<>> ELSE <<JStr(<<"k">>)>>
    [] OTHER -> <<>>

\* the loop body of lines 57-60 (withTool = FALSE) and 70-76 (TRUE)
RECURSIVE ScanContent(_, _, _, _, _)
ScanContent(items, i, label, generic, withTool) ==
  IF i > Len(items) THEN generic
  ELSE LET content == items[i]
       IN  IF content.t # "obj" THEN SummaryRaised
           ELSE IF ObjGet(content, "Type") = JNum(2)
                   /\ Truthy(ObjGet(content, "Text"))
                THEN Truncate(label, ObjGet(content, "Text"))
           ELSE IF withTool /\ ObjGet(content, "Type") = JNum(5)
                   /\ Truthy(ObjGet(content, "ToolName"))
                THEN Summary("Agent: [using ",
                             IF ObjGet(content, "ToolName").t = "str"
                             THEN ObjGet(content, "ToolName").s ELSE Repr,
                             "]")
           ELSE ScanContent(items, i + 1, label, generic, withTool)

\* lines 53-63 and 66-79
SummaryOfPayload(llm_data, label, generic, withTool) ==
  IF IsNull(llm_data) \/ Val(llm_data).len = 0 THEN generic
  ELSE LET data == Val(llm_data).json
       IN  IF data.t = "invalid" THEN generic
           ELSE IF data.t # "obj" THEN SummaryRaised
           ELSE IF "Content" \notin DOMAIN data.o
                THEN generic
           ELSE IF ~CanIterate(data.o["Content"]) THEN SummaryRaised
           ELSE ScanContent(IterItems(data.o["Content"]), 1, label, generic,
                            withTool)

get_message_summary(msg) ==
  CASE msg.type = "user" ->
         SummaryOfPayload(msg.llm_data, "User: ",
                          Summary("User: (message)", <<>>, ""), FALSE)
    [] msg.type = "agent" ->
         SummaryOfPayload(msg.llm_data, "Agent: ",
                          Summary("Agent: (response)", <<>>, ""), TRUE)
    [] msg.type = "tool" -> Summary("Tool: (result)", <<>>, "")
    [] msg.type = "system" -> Summary("System: (prompt)", <<>>, "")
    [] OTHER -> Summary(msg.type, <<>>, ": (message)")

\* ------------------------------------------------------ process machinery
\* the memory file when it is absent or not parseable
\* (_load_memory returns {'facts': {}, 'notes': []})
EmptyMemory == [facts |-> [k \in {} |-> NULL], notes |-> <<>>]

\* the checkpoint file when it is absent or not parseable
\* (_load_checkpoints returns {'checkpoints': {}})
EmptyFile == [k \in {} |-> NULL]

LocInit ==
  [op |-> "", conv |-> "", name |-> "", src |-> "", cutoff |-> 0,
   seq |-> NULL, sequence_id |-> NULL, slug |-> NULL, source |-> NULL,
   source_messages |-> <<>>, new_id |-> "", stamp |-> 0, idx |-> 0,
   checkpoint |-> NULL, data |-> EmptyFile, start |-> 0,
   timeout_seconds |-> 0, poll_interval |-> 0]

RetInit ==
  [op |-> "", status |-> "", conv |-> "", name |-> "", id |-> "",
   idx |-> 0, rec |-> NULL, old |-> NULL, flag |-> FALSE, list |-> <<>>]

Result(op, status, l) ==
  [RetInit EXCEPT !.op = op, !.status = status, !.conv = l.conv,
                  !.name = l.name, !.idx = l.idx]

\* the call of process p ends with outcome r
Finish(p, r) ==
  /\ pc' = [pc EXCEPT ![p] = "idle"]
  /\ loc' = [loc EXCEPT ![p] = LocInit]
  /\ ret' = [ret EXCEPT ![p] = r]

\* process p goes on to label, its locals become l
Goto(p, label, l) ==
  /\ pc' = [pc EXCEPT ![p] = label]
  /\ loc' = [loc EXCEPT ![p] = l]
  /\ ret' = [ret EXCEPT ![p] = RetInit]

\* a connection other than p's holds the write lock of the database
LockedByOther(p) == \E q \in Procs \ {p} : txConvs[q] # {}
NoOpenTransaction == \A q \in Procs : txConvs[q] = {}

UsedMsgIds(p) ==
  {m.message_id : m \in messages} \cup {m.message_id : m \in txMsgs[p]}
UsedConvIds == {r.conversation_id : r \in conversations}

\* generate_conversation_id: 'c' + 7 random characters.  Any id already in
\* use can come back; all unused ids are alike, the first one stands for them.
generate_conversation_id ==
  LET unused == {i \in 1..Len(IdOrder) : IdOrder[i] \notin UsedConvIds}
  IN  (UsedConvIds \cap IdPool) \cup
        (IF unused = {} THEN {} ELSE {IdOrder[Min(unused)]})

\* generate_message_id: uuid4.  Any id already in use can come back; all
\* unused ids are alike, the least one stands for them.
generate_message_id(p) ==
  UsedMsgIds(p) \cup
    (IF MsgIdPool \ UsedMsgIds(p) = {} THEN {}
     ELSE {Min(MsgIdPool \ UsedMsgIds(p))})

\* ------------------------------------------------- db.branch_conversation
\* new_slug of lines 130-132
BranchSlug(new_slug, source) ==
  IF IsNull(new_slug) \/ new_slug = Some("")
  THEN Some(OrElse(source.slug, "conversation") \o "-branch")
  ELSE new_slug

\* the row of lines 136-141
NewConversationRow(new_id, new_slug, stamp, source) ==
  [conversation_id |-> new_id, slug |-> new_slug, user_initiated |-> TRUE,
   created_at |-> stamp, updated_at |-> stamp,
   cwd |-> DictGet(TRUE, source.cwd, Some("/home/exedev")),
   archived |-> FALSE]

\* a copy that keeps the conversation id of the source row
NewMessageRow_SourceConv(new_msg_id, new_id, msg, stamp) ==
  [message_id |-> new_msg_id, conversation_id |-> msg.conversation_id,
   sequence_id |-> msg.sequence_id, type |-> msg.type,
   llm_data |-> msg.llm_data, user_data |-> msg.user_data,
   usage_data |-> msg.usage_data,
   created_at |-> DictGet(TRUE, msg.created_at, stamp),
   display_data |-> msg.display_data]

\* a copy that puts user_data into the display_data column
NewMessageRow_SwapPayload(new_msg_id, new_id, msg, stamp) ==
  [message_id |-> new_msg_id, conversation_id |-> new_id,
   sequence_id |-> msg.sequence_id, type |-> msg.type,
   llm_data |-> msg.llm_data, user_data |-> msg.user_data,
   usage_data |-> msg.usage_data,
   created_at |-> DictGet(TRUE, msg.created_at, stamp),
   display_data |-> msg.user_data]

\* a copy that keeps the message id of the source row
NewMessageRow_SourceId(new_msg_id, new_id, msg, stamp) ==
  [message_id |-> msg.message_id, conversation_id |-> new_id,
   sequence_id |-> msg.sequence_id, type |-> msg.type,
   llm_data |-> msg.llm_data, user_data |-> msg.user_data,
   usage_data |-> msg.usage_data,
   created_at |-> DictGet(TRUE, msg.created_at, stamp),
   display_data |-> msg.display_data]

\* the row of lines 146-161
NewMessageRow(new_msg_id, new_id, msg, stamp) ==
  [message_id |-> new_msg_id, conversation_id |-> new_id,
   sequence_id |-> msg.sequence_id, type |-> msg.type,
   llm_data |-> msg.llm_data, user_data |-> msg.user_data,
   usage_data |-> msg.usage_data,
   created_at |-> DictGet(TRUE, msg.created_at, stamp),
   display_data |-> msg.display_data]

\* lines 119-121: source = get_conversation(...); if not source: raise
BranchGetConversation(p, l) ==
  LET source == get_conversation(l.src)
  IN  IF IsNull(source)
      THEN Finish(p, Result(l.op, "NotFound", l))
      ELSE Goto(p, "br_msgs", [l EXCEPT !.source = source])

\* branch_conversation(c, cutoff, slug) is called; lines 119-121
branch_call(p, c, cutoff, slug) ==
  /\ pc[p] = "idle"
  /\ BranchGetConversation(p, [LocInit EXCEPT !.op = "branch", !.conv = c,
                                   !.src = c, !.cutoff = cutoff,
                                   !.slug = slug])
  /\ interfered' = [interfered EXCEPT ![p] = FALSE]
  /\ UNCHANGED <<dbvars, txvars, ckfile, now, memfile>>

\* lines 119-121 when reached from restore_checkpoint
branch_get_conversation(p) ==
  /\ pc[p] = "br_conv"
  /\ BranchGetConversation(p, loc[p])
  /\ UNCHANGED <<dbvars, txvars, ckfile, now, interfered, memfile>>

\* a fetch that goes on with an empty prefix
branch_get_messages_NoCheck(p) ==
  /\ pc[p] = "br_msgs"
  /\ Goto(p, "br_insert_conv",
          [loc[p] EXCEPT !.source_messages =
             get_messages(loc[p].src, Some(loc[p].cutoff))])
  /\ UNCHANGED <<dbvars, txvars, ckfile, now, interfered, memfile>>

\* lines 123-125
branch_get_messages(p) ==
  /\ pc[p] = "br_msgs"
  /\ LET source_messages == get_messages(loc[p].src, Some(loc[p].cutoff))
     IN  IF source_messages = <<>>
         THEN Finish(p, Result(loc[p].op, "EmptyRange", loc[p]))
         ELSE Goto(p, "br_insert_conv",
                   [loc[p] EXCEPT !.source_messages = source_messages])
  /\ UNCHANGED <<dbvars, txvars, ckfile, now, interfered, memfile>>

\* lines 127-141: mint the id, open the transaction, insert the
\* conversation row.  The insert fails on a primary key that exists and
\* when another connection holds the write lock; the with-block then rolls
\* back and the exception leaves branch_conversation.
branch_insert_conversation(p, new_id) ==
  /\ pc[p] = "br_insert_conv"
  /\ new_id \in generate_conversation_id
  /\ IF new_id \in UsedConvIds \/ LockedByOther(p)
     THEN /\ Finish(p, Result(loc[p].op, "StoreError", loc[p]))
          /\ UNCHANGED txvars
     ELSE /\ txConvs' = [txConvs EXCEPT ![p] =
                {NewConversationRow(new_id,
                                    BranchSlug(loc[p].slug,
                                               Val(loc[p].source)),
                                    now, Val(loc[p].source))}]
          /\ Goto(p, "br_insert_msg",
                  [loc[p] EXCEPT !.new_id = new_id, !.stamp = now,
                                 !.idx = 1])
          /\ UNCHANGED txMsgs
  /\ UNCHANGED <<dbvars, ckfile, now, interfered, memfile>>

\* a copy loop outside any transaction: each row is committed as it is
\* inserted
branch_insert_message_Autocommit(p, new_msg_id) ==
  /\ pc[p] = "br_insert_msg"
  /\ new_msg_id \in generate_message_id(p)
  /\ LET msg == loc[p].source_messages[loc[p].idx]
     IN  IF new_msg_id \in UsedMsgIds(p)
         THEN /\ txConvs' = [txConvs EXCEPT ![p] = {}]
              /\ Finish(p, Result(loc[p].op, "StoreError", loc[p]))
              /\ UNCHANGED messages
         ELSE /\ messages' = messages \cup
                    {NewMessageRow(new_msg_id, loc[p].new_id, msg,
                                   loc[p].stamp)}
              /\ UNCHANGED txConvs
              /\ IF loc[p].idx = Len(loc[p].source_messages)
                 THEN Goto(p, "br_commit", loc[p])
                 ELSE Goto(p, "br_insert_msg",
                           [loc[p] EXCEPT !.idx = @ + 1])
  /\ UNCHANGED <<conversations, txMsgs, ckfile, now, interfered, memfile>>

\* a copy loop that, when an insert fails, commits what it has inserted
branch_insert_message_NoRollback(p, new_msg_id) ==
  /\ pc[p] = "br_insert_msg"
  /\ new_msg_id \in generate_message_id(p)
  /\ LET msg == loc[p].source_messages[loc[p].idx]
     IN  IF new_msg_id \in UsedMsgIds(p)
         THEN /\ conversations' = conversations \cup txConvs[p]
              /\ messages' = messages \cup txMsgs[p]
              /\ txConvs' = [txConvs EXCEPT ![p] = {}]
              /\ txMsgs' = [txMsgs EXCEPT ![p] = {}]
              /\ Finish(p, Result(loc[p].op, "StoreError", loc[p]))
         ELSE /\ txMsgs' = [txMsgs EXCEPT ![p] = @ \cup
                    {NewMessageRow(new_msg_id, loc[p].new_id, msg,
                                   loc[p].stamp)}]
              /\ UNCHANGED <<dbvars, txConvs>>
              /\ IF loc[p].idx = Len(loc[p].source_messages)
                 THEN Goto(p, "br_commit", loc[p])
                 ELSE Goto(p, "br_insert_msg",
                           [loc[p] EXCEPT !.idx = @ + 1])
  /\ UNCHANGED <<ckfile, now, interfered, memfile>>

\* lines 144-161: one turn of the copy loop
branch_insert_message(p, new_msg_id) ==
  /\ pc[p] = "br_insert_msg"
  /\ new_msg_id \in generate_message_id(p)
  /\ LET msg == loc[p].source_messages[loc[p].idx]
         stamp == loc[p].stamp
     IN  IF new_msg_id \in UsedMsgIds(p)
         THEN /\ txConvs' = [txConvs EXCEPT ![p] = {}]
              /\ txMsgs' = [txMsgs EXCEPT ![p] = {}]
              /\ Finish(p, Result(loc[p].op, "StoreError", loc[p]))
         ELSE /\ txMsgs' = [txMsgs EXCEPT ![p] = @ \cup
                    {NewMessageRow(new_msg_id, loc[p].new_id, msg, stamp)}]
              /\ UNCHANGED txConvs
              /\ IF loc[p].idx = Len(loc[p].source_messages)
                 THEN Goto(p, "br_commit", loc[p])
                 ELSE Goto(p, "br_insert_msg",
                           [loc[p] EXCEPT !.idx = @ + 1])
  /\ UNCHANGED <<dbvars, ckfile, now, interfered, memfile>>

\* a commit that also archives the source conversation
branch_commit_ArchiveSource(p) ==
  /\ pc[p] = "br_commit"
  /\ conversations' =
       {IF r.conversation_id = loc[p].src THEN [r EXCEPT !.archived = TRUE]
        ELSE r : r \in conversations} \cup txConvs[p]
  /\ messages' = messages \cup txMsgs[p]
  /\ txConvs' = [txConvs EXCEPT ![p] = {}]
  /\ txMsgs' = [txMsgs EXCEPT ![p] = {}]
  /\ Finish(p, [Result(loc[p].op, "ok", loc[p]) EXCEPT
                  !.id = loc[p].new_id])
  /\ UNCHANGED <<ckfile, now, interfered, memfile>>

\* lines 163-165: commit and return new_id
branch_commit(p) ==
  /\ pc[p] = "br_commit"
  /\ conversations' = conversations \cup txConvs[p]
  /\ messages' = messages \cup txMsgs[p]
  /\ txConvs' = [txConvs EXCEPT ![p] = {}]
  /\ txMsgs' = [txMsgs EXCEPT ![p] = {}]
  /\ Finish(p, [Result(loc[p].op, "ok", loc[p]) EXCEPT
                  !.id = loc[p].new_id])
  /\ UNCHANGED <<ckfile, now, interfered, memfile>>

\* the process dies inside the transaction: nothing of it is committed
crash_in_transaction(p) ==
  /\ pc[p] \in {"br_insert_msg", "br_commit"}
  /\ txConvs' = [txConvs EXCEPT ![p] = {}]
  /\ txMsgs' = [txMsgs EXCEPT ![p] = {}]
  /\ Finish(p, Result(loc[p].op, "Crashed", loc[p]))
  /\ UNCHANGED <<dbvars, ckfile, now, interfered, memfile>>

\* ------------------------------------------------------- external writer
\* The agent service appends a message to a conversation: a sequence_id
\* above all of the conversation's, a message id not in use.  It waits
\* while a transaction holds the write lock.
SeqIdsOf(c) ==
  {m.sequence_id : m \in {x \in messages : x.conversation_id = c}}
NextSeqIds(c) ==
  {n \in 1..MaxSeq : \A k \in SeqIdsOf(c) : n > k}

\* process p has fetched the messages of c and a message with sequence_id
\* n would have been among them
Overtaken(p, c, n) ==
  /\ loc[p].src = c
  /\ \/ pc[p] \in {"br_insert_conv", "br_insert_msg", "br_commit"}
        /\ n <= loc[p].cutoff
     \/ pc[p] \in {"sv_summary", "sv_load", "sv_write"}

ExtAppend(c, kind, n) ==
  /\ c \in UsedConvIds
  /\ NoOpenTransaction
  /\ n \in NextSeqIds(c)
  /\ MsgIdPool \ {m.message_id : m \in messages} # {}
  /\ messages' = messages \cup
       {[message_id |-> Min(MsgIdPool \ {m.message_id : m \in messages}),
         conversation_id |-> c, sequence_id |-> n, type |-> kind.type,
         llm_data |-> kind.llm_data, user_data |-> kind.user_data,
         usage_data |-> kind.usage_data, created_at |-> now,
         display_data |-> kind.display_data]}
  /\ interfered' = [p \in Procs |->
                      interfered[p] \/ Overtaken(p, c, n)]
  /\ UNCHANGED <<conversations, txvars, ckfile, now, pc, loc, ret, memfile>>

Tick ==
  /\ now < MaxTime
  /\ now' = now + 1
  /\ UNCHANGED <<dbvars, txvars, ckfile, pc, loc, ret, interfered, memfile>>

\* ----------------------------------------------------------- checkpoint.py
\* key = f"{conversation_id}:{name}"
Key(conversation_id, name) == conversation_id \o ":" \o name

\* _load_checkpoints()['checkpoints']
\* (an absent or unparseable file reads as the empty map)
_load_checkpoints == ckfile

\* a lookup that falls back to some stored record when the key is missing
FileGet_Fallback(data, key) ==
  IF key \in DOMAIN data THEN Some(data[key])
  ELSE IF DOMAIN data = {} THEN NULL
  ELSE Some(data[CHOOSE k \in DOMAIN data : TRUE])

\* data['checkpoints'].get(key)
FileGet(data, key) == IF key \in DOMAIN data THEN Some(data[key]) ELSE NULL

\* an upsert that keeps the record already stored under the key
FilePut_KeepOld(data, key, checkpoint) == data @@ (key :> checkpoint)

\* data['checkpoints'][key] = checkpoint
FilePut(data, key, checkpoint) == (key :> checkpoint) @@ data

\* a delete that empties the map
FileDel_All(data, key) == EmptyFile

\* del data['checkpoints'][key]
FileDel(data, key) == [k \in DOMAIN data \ {key} |-> data[k]]

get_checkpoint(conversation_id, name) ==
  FileGet(_load_checkpoints, Key(conversation_id, name))

\* checkpoints.sort(key=lambda c: c.get('created_at', ''), reverse=True);
\* records with equal created_at come in an order the map does not fix
\* c.get('created_at', ''): the empty string sorts below every timestamp
CreatedKey(checkpoint) ==
  IF "created_at" \in DOMAIN checkpoint THEN checkpoint.created_at ELSE -1

\* a sort that puts the oldest record first
RECURSIVE SortByCreatedAsc(_, _)
SortByCreatedAsc(data, keys) ==
  IF keys = {} THEN <<>>
  ELSE LET lo == Min({CreatedKey(data[k]) : k \in keys})
           first == CHOOSE k \in keys : CreatedKey(data[k]) = lo
       IN  <<data[first]>> \o SortByCreatedAsc(data, keys \ {first})

RECURSIVE SortByCreatedDesc(_, _)
SortByCreatedDesc(data, keys) ==
  IF keys = {} THEN <<>>
  ELSE LET hi == Max({CreatedKey(data[k]) : k \in keys})
           first == CHOOSE k \in keys : CreatedKey(data[k]) = hi
       IN  <<data[first]>> \o SortByCreatedDesc(data, keys \ {first})

\* lines 90-98; the filter applies when conversation_id is truthy
list_checkpoints(conversation_id) ==
  LET data == _load_checkpoints
      checkpoints == DOMAIN data
  IN  SortByCreatedDesc(data,
        IF IsNull(conversation_id) \/ conversation_id = Some("")
        THEN checkpoints
        ELSE {k \in checkpoints :
                data[k].conversation_id = Val(conversation_id)})

\* max(m['sequence_id'] for m in messages)
LatestSequence(msgs) == Max({msgs[i].sequence_id : i \in 1..Len(msgs)})

\* save_checkpoint(c, name, seq) is called; lines 46-48
save_call(p, c, name, seq) ==
  /\ pc[p] = "idle"
  /\ Cardinality(DOMAIN ckfile \cup {Key(c, name)}) <= MaxCheckpoints
  /\ LET l == [LocInit EXCEPT !.op = "save", !.conv = c, !.src = c,
                              !.name = name, !.seq = seq]
         conv == get_conversation(c)
     IN  IF IsNull(conv)
         THEN Finish(p, Result("save", "NotFound", l))
         ELSE Goto(p, IF IsNull(seq) THEN "sv_latest" ELSE "sv_summary",
                   [l EXCEPT !.source = conv, !.sequence_id = seq])
  /\ interfered' = [interfered EXCEPT ![p] = FALSE]
  /\ UNCHANGED <<dbvars, txvars, ckfile, now, memfile>>

\* a resolution that takes sequence 0 for a conversation without messages
save_latest_DefaultZero(p) ==
  /\ pc[p] = "sv_latest"
  /\ LET msgs == get_messages(loc[p].conv, NULL)
     IN  Goto(p, "sv_summary",
              [loc[p] EXCEPT !.sequence_id =
                 IF msgs = <<>> THEN Some(0)
                 ELSE Some(LatestSequence(msgs))])
  /\ UNCHANGED <<dbvars, txvars, ckfile, now, interfered, memfile>>

\* lines 51-55
save_latest(p) ==
  /\ pc[p] = "sv_latest"
  /\ LET msgs == get_messages(loc[p].conv, NULL)
     IN  IF msgs = <<>>
         THEN Finish(p, Result("save", "NotFound", loc[p]))
         ELSE Goto(p, "sv_summary",
                   [loc[p] EXCEPT
                      !.sequence_id = Some(LatestSequence(msgs))])
  /\ UNCHANGED <<dbvars, txvars, ckfile, now, interfered, memfile>>

\* lines 58-69; an exception of get_message_summary leaves save_checkpoint
save_summary(p) ==
  /\ pc[p] = "sv_summary"
  /\ LET msgs == get_messages(loc[p].conv, loc[p].sequence_id)
         summary == IF msgs = <<>> THEN Summary("(empty)", <<>>, "")
                    ELSE get_message_summary(msgs[Len(msgs)])
     IN  IF summary.raised
         THEN Finish(p, Result("save", "Raised", loc[p]))
         ELSE Goto(p, "sv_load",
                   [loc[p] EXCEPT !.checkpoint = Some(
                      [conversation_id |-> loc[p].conv,
                       sequence_id |-> Val(loc[p].sequence_id),
                       name |-> loc[p].name,
                       summary |-> summary,
                       slug |-> DictGet(TRUE, Val(loc[p].source).slug, NULL),
                       created_at |-> now])])
  /\ UNCHANGED <<dbvars, txvars, ckfile, now, interfered, memfile>>

\* lines 71-75
save_load(p) ==
  /\ pc[p] = "sv_load"
  /\ Goto(p, "sv_write",
          [loc[p] EXCEPT !.data = FilePut(_load_checkpoints,
                                          Key(loc[p].conv, loc[p].name),
                                          Val(loc[p].checkpoint))])
  /\ UNCHANGED <<dbvars, txvars, ckfile, now, interfered, memfile>>

\* a write that puts the record into the file as it is now
save_write_Merge(p) ==
  /\ pc[p] = "sv_write"
  /\ ckfile' = FilePut(ckfile, Key(loc[p].conv, loc[p].name),
                       Val(loc[p].checkpoint))
  /\ Finish(p, [Result("save", "ok", loc[p]) EXCEPT
                  !.rec = loc[p].checkpoint,
                  !.old = FileGet(ckfile, Key(loc[p].conv, loc[p].name))])
  /\ UNCHANGED <<dbvars, txvars, now, interfered, memfile>>

\* lines 77-78
save_write(p) ==
  /\ pc[p] = "sv_write"
  /\ ckfile' = loc[p].data
  /\ Finish(p, [Result("save", "ok", loc[p]) EXCEPT
                  !.rec = loc[p].checkpoint,
                  !.old = FileGet(ckfile, Key(loc[p].conv, loc[p].name))])
  /\ UNCHANGED <<dbvars, txvars, now, interfered, memfile>>

\* get_checkpoint(c, name), lines 83-85
get_call(p, c, name) ==
  /\ pc[p] = "idle"
  /\ ret' = [ret EXCEPT ![p] =
       [RetInit EXCEPT !.op = "get", !.status = "ok", !.conv = c,
                       !.name = name, !.rec = get_checkpoint(c, name)]]
  /\ UNCHANGED <<dbvars, txvars, ckfile, now, pc, loc, interfered, memfile>>

\* list_checkpoints(c), lines 90-98
list_call(p, c) ==
  /\ pc[p] = "idle"
  /\ ret' = [ret EXCEPT ![p] =
       [RetInit EXCEPT !.op = "list", !.status = "ok",
                       !.conv = IF IsNull(c) THEN "" ELSE Val(c),
                       !.list = list_checkpoints(c)]]
  /\ UNCHANGED <<dbvars, txvars, ckfile, now, pc, loc, interfered, memfile>>

\* delete_checkpoint(c, name) is called; lines 122-126, 129
delete_call(p, c, name) ==
  /\ pc[p] = "idle"
  /\ LET l == [LocInit EXCEPT !.op = "delete", !.conv = c, !.name = name]
         data == _load_checkpoints
         key == Key(c, name)
     IN  IF key \in DOMAIN data
         THEN Goto(p, "dl_write", [l EXCEPT !.data = FileDel(data, key)])
         ELSE Finish(p, Result("delete", "ok", l))
  /\ interfered' = [interfered EXCEPT ![p] = FALSE]
  /\ UNCHANGED <<dbvars, txvars, ckfile, now, memfile>>

\* lines 127-128
delete_write(p) ==
  /\ pc[p] = "dl_write"
  /\ ckfile' = loc[p].data
  /\ Finish(p, [Result("delete", "ok", loc[p]) EXCEPT
                  !.flag = TRUE,
                  !.old = FileGet(ckfile, Key(loc[p].conv, loc[p].name))])
  /\ UNCHANGED <<dbvars, txvars, now, interfered, memfile>>

\* str(x) inside an f-string
PyStr(o) == IF IsNull(o) THEN "None" ELSE Val(o)

\* a restore that copies the conversation as it is now
RestoreCutoff_Latest(checkpoint) == MaxSeq + 1

\* line 115: the cutoff restore_checkpoint hands to branch_conversation
RestoreCutoff(checkpoint) == checkpoint.sequence_id

\* restore_checkpoint(c, name) is called; lines 107-117 up to the call of
\* branch_conversation
restore_call(p, c, name) ==
  /\ pc[p] = "idle"
  /\ LET l == [LocInit EXCEPT !.op = "restore", !.conv = c, !.name = name]
         checkpoint == get_checkpoint(c, name)
     IN  IF IsNull(checkpoint)
         THEN Finish(p, Result("restore", "NotFound", l))
         ELSE Goto(p, "br_conv",
                [l EXCEPT
                   !.src = Val(checkpoint).conversation_id,
                   !.cutoff = RestoreCutoff(Val(checkpoint)),
                   !.slug = Some(PyStr(DictGet(TRUE, Val(checkpoint).slug,
                                               Some("conversation")))
                                 \o "-from-" \o name)])
  /\ interfered' = [interfered EXCEPT ![p] = FALSE]
  /\ UNCHANGED <<dbvars, txvars, ckfile, now, memfile>>

\* ------------------------------------------------------------ specification
\* One conversation of the agent service exists; the checkpoint file does
\* not.
Init ==
  /\ \E meta \in SourceMeta :
       conversations =
         {[conversation_id |-> "c1", slug |-> meta.slug,
           user_initiated |-> FALSE, created_at |-> 0, updated_at |-> 0,
           cwd |-> meta.cwd, archived |-> FALSE]}
  /\ messages = {}
  /\ txConvs = [p \in Procs |-> {}]
  /\ txMsgs = [p \in Procs |-> {}]
  /\ ckfile = EmptyFile
  /\ now = 0
  /\ pc = [p \in Procs |-> "idle"]
  /\ loc = [p \in Procs |-> LocInit]
  /\ ret = [p \in Procs |-> RetInit]
  /\ interfered = [p \in Procs |-> FALSE]
  /\ memfile = EmptyMemory

BranchCall == \E p \in MainProcs, c \in IdPool, s \in Cutoffs, g \in Slugs :
                branch_call(p, c, s, g)
\* branch at cutoff 1 without a slug, of any id a caller may pass
BranchCallPlain == \E p \in MainProcs, c \in ArgConvIds :
                     branch_call(p, c, 1, NULL)
BranchGetConv == \E p \in MainProcs : branch_get_conversation(p)
BranchGetMessages == \E p \in MainProcs : branch_get_messages(p)
BranchInsertConv == \E p \in MainProcs, id \in IdPool :
                      branch_insert_conversation(p, id)
BranchInsertMsg == \E p \in MainProcs, id \in MsgIdPool :
                     branch_insert_message(p, id)
BranchCommit == \E p \in MainProcs : branch_commit(p)
Crash == \E p \in MainProcs : crash_in_transaction(p)
SaveCall == \E p \in MainProcs, c \in IdPool, n \in Names, s \in SeqArgs :
              save_call(p, c, n, s)
\* save a checkpoint of the first conversation under the name RestoreName
SaveCallNamed == \E p \in MainProcs, s \in SeqArgs :
                   save_call(p, IdOrder[1], RestoreName, s)
SaveLatest == \E p \in MainProcs : save_latest(p)
SaveSummary == \E p \in MainProcs : save_summary(p)
SaveLoad == \E p \in MainProcs : save_load(p)
SaveWrite == \E p \in MainProcs : save_write(p)
GetCall == \E p \in MainProcs, c \in ArgConvIds, n \in Names :
             get_call(p, c, n)
ListCall == \E p \in MainProcs, c \in {NULL} \cup {Some(x) : x \in IdPool} :
              list_call(p, c)
DeleteCall == \E p \in MainProcs, c \in ArgConvIds, n \in Names :
                delete_call(p, c, n)
DeleteWrite == \E p \in MainProcs : delete_write(p)
RestoreCall == \E p \in MainProcs, c \in IdPool, n \in Names :
                 restore_call(p, c, n)
WriterAppend == \E c \in IdPool, kind \in MsgKinds, n \in 1..MaxSeq :
                  ExtAppend(c, kind, n)

\* the branch engine and the external writer
Next ==
  \/ BranchCall
  \/ BranchGetMessages
  \/ BranchInsertConv
  \/ BranchInsertMsg
  \/ BranchCommit
  \/ Crash
  \/ WriterAppend

Spec == Init /\ [][Next]_vars

\* the checkpoint registry and the external writer
NextCk ==
  \/ SaveCall
  \/ SaveLatest
  \/ SaveSummary
  \/ SaveLoad
  \/ SaveWrite
  \/ GetCall
  \/ ListCall
  \/ DeleteCall
  \/ DeleteWrite
  \/ WriterAppend

SpecCk == Init /\ [][NextCk]_vars

\* saving and restoring checkpoints, and the external writer
NextRestore ==
  \/ SaveCallNamed
  \/ SaveLatest
  \/ SaveSummary
  \/ SaveLoad
  \/ SaveWrite
  \/ RestoreCall
  \/ BranchGetConv
  \/ BranchGetMessages
  \/ BranchInsertConv
  \/ BranchInsertMsg
  \/ BranchCommit
  \/ WriterAppend

SpecRestore == Init /\ [][NextRestore]_vars

\* the agent service appends to the conversation it created first
WriterAppendFirst == \E kind \in MsgKinds, n \in 1..MaxSeq :
                       ExtAppend(IdOrder[1], kind, n)

\* the same with calls of branch_conversation, the writer appending to the
\* first conversation only
NextLookup ==
  \/ SaveCallNamed
  \/ SaveLatest
  \/ SaveSummary
  \/ SaveLoad
  \/ SaveWrite
  \/ RestoreCall
  \/ BranchCallPlain
  \/ BranchGetConv
  \/ BranchGetMessages
  \/ BranchInsertConv
  \/ BranchInsertMsg
  \/ BranchCommit
  \/ WriterAppendFirst

SpecLookup == Init /\ [][NextLookup]_vars

\* a user message with a text
UserKind ==
  [type |-> "user",
   llm_data |-> Some(Text(40, Content(<<TextBlock(<<"h", "i">>)>>))),
   user_data |-> NULL, usage_data |-> NULL, display_data |-> Some("dd")]

\* branch at any cutoff without a slug
BranchCallAt == \E p \in MainProcs, c \in IdPool, s \in Cutoffs :
                  branch_call(p, c, s, NULL)
\* save a checkpoint of the first conversation at its latest message
SaveCallLatest == \E p \in MainProcs :
                    save_call(p, IdOrder[1], RestoreName, NULL)
\* the agent service appends user messages
WriterAppendUser == \E c \in IdPool, n \in 1..MaxSeq :
                      ExtAppend(c, UserKind, n)

\* branches (of branches too), checkpoints of the first conversation and
\* their restores, the external writer, and crashes inside the transaction
NextStore ==
  \/ BranchCallAt
  \/ SaveCallLatest
  \/ SaveLatest
  \/ SaveSummary
  \/ SaveLoad
  \/ SaveWrite
  \/ RestoreCall
  \/ BranchGetConv
  \/ BranchGetMessages
  \/ BranchInsertConv
  \/ BranchInsertMsg
  \/ BranchCommit
  \/ Crash
  \/ WriterAppendUser

SpecStore == Init /\ [][NextStore]_vars

\* ------------------------------------------------------ the read calls
\* ORDER BY updated_at DESC; rows with equal updated_at come in an order
\* the query does not fix
RECURSIVE OrderByUpdatedDesc(_)
OrderByUpdatedDesc(rows) ==
  IF rows = {} THEN <<>>
  ELSE LET hi == Max({r.updated_at : r \in rows})
           first == CHOOSE r \in rows : r.updated_at = hi
       IN  <<first>> \o OrderByUpdatedDesc(rows \ {first})

\* SELECT * FROM conversations WHERE archived = 0
\*   ORDER BY updated_at DESC LIMIT ?
list_conversations(limit) ==
  LET rows == OrderByUpdatedDesc({r \in conversations : ~r.archived})
  IN  SubSeq(rows, 1, IF Len(rows) < limit THEN Len(rows) ELSE limit)

\* get_conversation(c) is called and returns the row or None
get_conversation_call(p, c) ==
  /\ pc[p] = "idle"
  /\ ret' = [ret EXCEPT ![p] =
       [RetInit EXCEPT !.op = "get_conversation", !.status = "ok",
                       !.conv = c, !.rec = get_conversation(c)]]
  /\ UNCHANGED <<dbvars, txvars, ckfile, now, pc, loc, interfered, memfile>>

\* get_messages(c, max_sequence) is called and returns the rows
get_messages_call(p, c, max_sequence) ==
  /\ pc[p] = "idle"
  /\ ret' = [ret EXCEPT ![p] =
       [RetInit EXCEPT !.op = "get_messages", !.status = "ok",
                       !.conv = c, !.old = max_sequence,
                       !.list = get_messages(c, max_sequence)]]
  /\ UNCHANGED <<dbvars, txvars, ckfile, now, pc, loc, interfered, memfile>>

\* list_conversations(limit) is called and returns the rows
list_conversations_call(p, limit) ==
  /\ pc[p] = "idle"
  /\ ret' = [ret EXCEPT ![p] =
       [RetInit EXCEPT !.op = "list_conversations", !.status = "ok",
                       !.idx = limit, !.list = list_conversations(limit)]]
  /\ UNCHANGED <<dbvars, txvars, ckfile, now, pc, loc, interfered, memfile>>

\* ------------------------------------------------- listing over time
\* a record of a checkpoint file that was not written by save_checkpoint:
\* it has no created_at
ForeignRecord ==
  [conversation_id |-> IdOrder[2], sequence_id |-> 0, name |-> RestoreName,
   summary |-> Summary("(empty)", <<>>, ""), slug |-> NULL]

\* two conversations of the agent service; the checkpoint file absent, or
\* holding the foreign record
InitList ==
  /\ \E meta \in SourceMeta :
       conversations =
         {[conversation_id |-> id, slug |-> meta.slug,
           user_initiated |-> FALSE, created_at |-> 0, updated_at |-> 0,
           cwd |-> meta.cwd, archived |-> FALSE] :
            id \in {IdOrder[1], IdOrder[2]}}
  /\ ckfile \in {EmptyFile,
                  FilePut(EmptyFile, Key(IdOrder[2], RestoreName),
                          ForeignRecord)}
  /\ messages = {}
  /\ txConvs = [p \in Procs |-> {}]
  /\ txMsgs = [p \in Procs |-> {}]
  /\ now = 0
  /\ pc = [p \in Procs |-> "idle"]
  /\ loc = [p \in Procs |-> LocInit]
  /\ ret = [p \in Procs |-> RetInit]
  /\ interfered = [p \in Procs |-> FALSE]
  /\ memfile = EmptyMemory

\* saves with an explicit sequence, of either conversation
SaveCallAt == \E p \in MainProcs, c \in {IdOrder[1], IdOrder[2]},
                 n \in Names :
                save_call(p, c, n, Some(0))

\* saving and listing checkpoints while the clock advances
NextList ==
  \/ SaveCallAt
  \/ SaveSummary
  \/ SaveLoad
  \/ SaveWrite
  \/ ListCall
  \/ Tick

SpecList == InitList /\ [][NextList]_vars

\* ------------------------------------------------ callers of the summary
\* get_message_summary(msg) is called for a stored message and returns or
\* raises
summary_call(p, msg) ==
  /\ pc[p] = "idle"
  /\ LET r == get_message_summary(msg)
     IN  ret' = [ret EXCEPT ![p] =
           [RetInit EXCEPT !.op = "summary",
                           !.status = IF r.raised THEN "Raised" ELSE "ok",
                           !.conv = msg.conversation_id,
                           !.idx = msg.message_id, !.rec = Some(r)]]
  /\ UNCHANGED <<dbvars, txvars, ckfile, now, pc, loc, interfered, memfile>>

\* a text of n characters
Chars(n) == [i \in 1..n |-> "x"]

\* a message of the given type with the given llm_data
Message(type, llm_data) ==
  [type |-> type, llm_data |-> llm_data, user_data |-> NULL,
   usage_data |-> NULL, display_data |-> NULL]

\* what the agent service puts into a message: llm_data of several shapes
PayloadKinds ==
  { Message("user", Some(Text(120, Content(<<TextBlock(Chars(80))>>)))),
    Message("user", Some(Text(140, Content(<<TextBlock(Chars(100))>>)))),
    Message("user", Some(Text(141, Content(<<TextBlock(Chars(101))>>)))),
    Message("user", Some(Text(190, Content(<<TextBlock(Chars(150))>>)))),
    Message("user", Some(Text(60, Content(<<TextBlock(<<>>),
                                            ToolBlock(<<"b">>),
                                            TextBlock(<<"h", "i">>)>>)))),
    Message("user", NULL),
    Message("user", Some(Text(4, JInvalid))),
    Message("user", Some(Text(2, JList(<<>>)))),
    Message("user", Some(Text(16, JObj([Content |-> JNull])))),
    Message("user", Some(Text(15, Content(<<JNum(5)>>)))),
    Message("user", Some(Text(44, Content(<<TextBlock(<<"h", "i">>),
                                            JNum(5)>>)))),
    Message("user", Some(Text(35,
      Content(<<JObj([Type |-> JNum(2), Text |-> JNum(5)])>>)))),
    Message("agent", Some(Text(70, Content(<<ToolBlock(<<"b">>),
                                             TextBlock(<<"o", "k">>)>>)))),
    Message("agent", Some(Text(70, Content(<<TextBlock(<<"o", "k">>),
                                             ToolBlock(<<"b">>)>>)))),
    Message("agent", Some(Text(40, Content(<<ToolBlock(<<"b">>)>>)))),
    Message("agent", Some(Text(30, Content(<<TextBlock(<<>>)>>)))),
    Message("agent", Some(Text(16, JObj([Content |-> JNull])))),
    Message("agent", Some(Text(4, JInvalid))),
    Message("tool", Some(Text(30, Content(<<TextBlock(<<"r">>)>>)))),
    Message("system", NULL) }

SummaryCall == \E p \in MainProcs, msg \in messages : summary_call(p, msg)
WriterAppendPayload ==
  \E c \in IdPool, kind \in PayloadKinds, n \in 1..MaxSeq :
    ExtAppend(c, kind, n)

\* the summarizer applied to stored messages, and the external writer
NextSummary ==
  \/ SummaryCall
  \/ WriterAppendPayload

SpecSummary == Init /\ [][NextSummary]_vars

\* --------------------------------------------------------- estimate_tokens
\* usage.get(key, 0) of a parsed usage object
UsageGet(usage, key) ==
  IF key \in DOMAIN usage.o THEN usage.o[key] ELSE JNum(0)

\* lines 176-183 for one message: what it adds to the two sums; raised =
\* TRUE: an exception other than JSONDecodeError leaves the loop
UsageOf(msg) ==
  LET zero == [raised |-> FALSE, input |-> 0, output |-> 0]
      fails == [raised |-> TRUE, input |-> 0, output |-> 0]
  IN  IF IsNull(msg.usage_data) \/ Val(msg.usage_data).len = 0 THEN zero
      ELSE LET usage == Val(msg.usage_data).json
           IN  IF usage.t = "invalid" THEN zero
               ELSE IF usage.t # "obj" THEN fails
               ELSE IF UsageGet(usage, "input_tokens").t # "num"
                       \/ UsageGet(usage, "output_tokens").t # "num"
                    THEN fails
               ELSE [raised |-> FALSE,
                     input |-> UsageGet(usage, "input_tokens").n,
                     output |-> UsageGet(usage, "output_tokens").n]

\* lines 188-191 for one message: len(llm_data) // 4 by type; len(None)
\* raises for a user or agent message
LengthShare(msg) ==
  LET llm_data == DictGet(TRUE, msg.llm_data, Some(Text(0, JInvalid)))
  IN  IF msg.type \notin {"user", "agent"}
      THEN [raised |-> FALSE, input |-> 0, output |-> 0]
      ELSE IF IsNull(llm_data)
      THEN [raised |-> TRUE, input |-> 0, output |-> 0]
      ELSE [raised |-> FALSE,
            input |-> IF msg.type = "user"
                      THEN Val(llm_data).len \div 4 ELSE 0,
            output |-> IF msg.type = "agent"
                       THEN Val(llm_data).len \div 4 ELSE 0]

\* the loops of lines 175-183 (share = UsageOf) and 187-191 (LengthShare)
\* over the first i messages
RECURSIVE PrimaryPass(_, _)
PrimaryPass(msgs, i) ==
  IF i = 0 THEN [raised |-> FALSE, input |-> 0, output |-> 0]
  ELSE LET before == PrimaryPass(msgs, i - 1)
           this == UsageOf(msgs[i])
       IN  [raised |-> before.raised \/ this.raised,
            input |-> before.input + this.input,
            output |-> before.output + this.output]

RECURSIVE FallbackPass(_, _)
FallbackPass(msgs, i) ==
  IF i = 0 THEN [raised |-> FALSE, input |-> 0, output |-> 0]
  ELSE LET before == FallbackPass(msgs, i - 1)
           this == LengthShare(msgs[i])
       IN  [raised |-> before.raised \/ this.raised,
            input |-> before.input + this.input,
            output |-> before.output + this.output]

\* the result of a call that raised
EstimateRaised ==
  [raised |-> TRUE, input_tokens |-> 0, output_tokens |-> 0,
   total_tokens |-> 0, estimated |-> FALSE]

\* lines 170-198
estimate_tokens(conversation_id) ==
  LET msgs == get_messages(conversation_id, NULL)
      primary == PrimaryPass(msgs, Len(msgs))
      useFallback == primary.input = 0 /\ primary.output = 0
      fallback == FallbackPass(msgs, Len(msgs))
      total_input == IF useFallback THEN fallback.input ELSE primary.input
      total_output == IF useFallback THEN fallback.output
                      ELSE primary.output
  IN  IF primary.raised \/ (useFallback /\ fallback.raised)
      THEN EstimateRaised
      ELSE [raised |-> FALSE,
            input_tokens |-> total_input,
            output_tokens |-> total_output,
            total_tokens |-> total_input + total_output,
            estimated |-> total_input = 0 /\ total_output = 0]

\* estimate_tokens(c) is called and returns or raises
estimate_call(p, c) ==
  /\ pc[p] = "idle"
  /\ LET r == estimate_tokens(c)
     IN  ret' = [ret EXCEPT ![p] =
           [RetInit EXCEPT !.op = "estimate",
                           !.status = IF r.raised THEN "Raised" ELSE "ok",
                           !.conv = c, !.rec = Some(r)]]
  /\ UNCHANGED <<dbvars, txvars, ckfile, now, pc, loc, interfered, memfile>>

\* what the agent service puts into a message, with token accounting
UsageKinds ==
  { [type |-> "user",
     llm_data |-> Some(Text(40, Content(<<TextBlock(<<"h", "i">>)>>))),
     user_data |-> NULL, usage_data |-> NULL, display_data |-> NULL],
    [type |-> "user",
     llm_data |-> Some(Text(40, Content(<<TextBlock(<<"h", "i">>)>>))),
     user_data |-> NULL,
     usage_data |-> Some(Text(20, JObj([input_tokens |-> JNum(10)]))),
     display_data |-> NULL],
    [type |-> "agent",
     llm_data |-> Some(Text(16, Content(<<TextBlock(<<"o", "k">>)>>))),
     user_data |-> NULL,
     usage_data |-> Some(Text(21, JObj([output_tokens |-> JNum(20)]))),
     display_data |-> NULL],
    [type |-> "agent",
     llm_data |-> Some(Text(16, Content(<<TextBlock(<<"o", "k">>)>>))),
     user_data |-> NULL,
     usage_data |-> Some(Text(38, JObj([input_tokens |-> JNum(0),
                                        output_tokens |-> JNum(0)]))),
     display_data |-> NULL],
    [type |-> "agent",
     llm_data |-> Some(Text(16, Content(<<TextBlock(<<"o", "k">>)>>))),
     user_data |-> NULL, usage_data |-> Some(Text(5, JInvalid)),
     display_data |-> NULL],
    [type |-> "agent",
     llm_data |-> Some(Text(16, Content(<<TextBlock(<<"o", "k">>)>>))),
     user_data |-> NULL, usage_data |-> Some(Text(2, JList(<<>>))),
     display_data |-> NULL],
    [type |-> "agent",
     llm_data |-> Some(Text(16, Content(<<TextBlock(<<"o", "k">>)>>))),
     user_data |-> NULL,
     usage_data |-> Some(Text(22, JObj([input_tokens |-> JNull]))),
     display_data |-> NULL],
    [type |-> "user", llm_data |-> NULL, user_data |-> Some("ud"),
     usage_data |-> NULL, display_data |-> NULL],
    [type |-> "tool", llm_data |-> NULL, user_data |-> NULL,
     usage_data |-> NULL, display_data |-> Some("dd")] }

EstimateCall == \E p \in MainProcs, c \in IdPool : estimate_call(p, c)
WriterAppendUsage == \E c \in IdPool, kind \in UsageKinds, n \in 1..MaxSeq :
                       ExtAppend(c, kind, n)

\* the token estimator and the external writer
NextTokens ==
  \/ EstimateCall
  \/ WriterAppendUsage

SpecTokens == Init /\ [][NextTokens]_vars

\* every operation of db.py and checkpoint.py, one caller, and the
\* external writer
NextFrame ==
  \/ \E p \in MainProcs, c \in {IdOrder[1], IdOrder[3]} :
       get_conversation_call(p, c)
  \/ \E p \in MainProcs, s \in {NULL, Some(1)} :
       get_messages_call(p, IdOrder[1], s)
  \/ \E p \in MainProcs, limit \in {1, 20} : list_conversations_call(p, limit)
  \/ \E p \in MainProcs : estimate_call(p, IdOrder[1])
  \/ SummaryCall
  \/ SaveCallLatest
  \/ SaveLatest
  \/ SaveSummary
  \/ SaveLoad
  \/ SaveWrite
  \/ \E p \in MainProcs : get_call(p, IdOrder[1], RestoreName)
  \/ \E p \in MainProcs, c \in {NULL, Some(IdOrder[1])} : list_call(p, c)
  \/ \E p \in MainProcs : delete_call(p, IdOrder[1], RestoreName)
  \/ DeleteWrite
  \/ \E p \in MainProcs : restore_call(p, IdOrder[1], RestoreName)
  \/ BranchCallPlain
  \/ BranchGetConv
  \/ BranchGetMessages
  \/ BranchInsertConv
  \/ BranchInsertMsg
  \/ BranchCommit
  \/ WriterAppendUser

SpecFrame == Init /\ [][NextFrame]_vars

\* ------------------------------------------------- two concurrent callers
\* the record save_checkpoint("c1", RestoreName, 0) stores for a
\* conversation without messages
StoredEarlier(conv) ==
  [conversation_id |-> conv.conversation_id, sequence_id |-> 0,
   name |-> RestoreName, summary |-> Summary("(empty)", <<>>, ""),
   slug |-> conv.slug, created_at |-> 0]

\* as Init, the checkpoint file absent or left by an earlier save
InitRace ==
  /\ \E meta \in SourceMeta :
       LET conv == [conversation_id |-> "c1", slug |-> meta.slug,
                    user_initiated |-> FALSE, created_at |-> 0,
                    updated_at |-> 0, cwd |-> meta.cwd, archived |-> FALSE]
       IN  /\ conversations = {conv}
           /\ ckfile \in {EmptyFile,
                           FilePut(EmptyFile, Key("c1", RestoreName),
                                   StoredEarlier(conv))}
  /\ messages = {}
  /\ txConvs = [p \in Procs |-> {}]
  /\ txMsgs = [p \in Procs |-> {}]
  /\ now = 0
  /\ pc = [p \in Procs |-> "idle"]
  /\ loc = [p \in Procs |-> LocInit]
  /\ ret = [p \in Procs |-> RetInit]
  /\ interfered = [p \in Procs |-> FALSE]
  /\ memfile = EmptyMemory

\* process p has made no call yet
NotCalledYet(p) == pc[p] = "idle" /\ ret[p] = RetInit

\* each of the two processes makes one call of save_checkpoint (with an
\* explicit sequence) or of delete_checkpoint
RaceSaveCall == \E p \in Procs, n \in Names, s \in {Some(0), Some(MaxSeq)} :
                  NotCalledYet(p) /\ save_call(p, IdOrder[1], n, s)
RaceSaveSummary == \E p \in Procs : save_summary(p)
RaceSaveLoad == \E p \in Procs : save_load(p)
RaceSaveWrite == \E p \in Procs : save_write(p)
RaceDeleteCall == \E p \in Procs, n \in Names :
                    NotCalledYet(p) /\ delete_call(p, IdOrder[1], n)
RaceDeleteWrite == \E p \in Procs : delete_write(p)

NextRace ==
  \/ RaceSaveCall
  \/ RaceSaveSummary
  \/ RaceSaveLoad
  \/ RaceSaveWrite
  \/ RaceDeleteCall
  \/ RaceDeleteWrite

SpecRace == InitRace /\ [][NextRace]_vars

\* ----------------------------------------------------------------- memory.py
\* keys, values and note texts a caller may pass
FactKeys == {"k1", "k2"}
FactValues == {"", "v", "w"}
NoteTexts == {"n", "o"}

\* _load_memory() (an absent or unparseable file reads as the empty store)
_load_memory == memfile

\* what memory.py does not touch
corevars == <<dbvars, txvars, ckfile, now, pc, loc, interfered>>

\* a set that rebuilds the facts from the one it stores
set_fact_Reset(p, key, value) ==
  /\ pc[p] = "idle"
  /\ LET data == _load_memory
     IN  memfile' = [data EXCEPT !.facts =
                       (key :> [value |-> value, updated_at |-> now])]
  /\ ret' = [ret EXCEPT ![p] =
       [RetInit EXCEPT !.op = "set_fact", !.status = "ok", !.name = key,
                       !.rec = Some(value)]]
  /\ UNCHANGED corevars

\* lines 34-39
set_fact(p, key, value) ==
  /\ pc[p] = "idle"
  /\ LET data == _load_memory
     IN  memfile' = [data EXCEPT !.facts =
                       (key :> [value |-> value, updated_at |-> now]) @@ @]
  /\ ret' = [ret EXCEPT ![p] =
       [RetInit EXCEPT !.op = "set_fact", !.status = "ok", !.name = key,
                       !.rec = Some(value)]]
  /\ UNCHANGED corevars

\* lines 44-46; a stored fact is a dict of two entries, which is truthy
get_fact(key) ==
  LET data == _load_memory
      fact == IF key \in DOMAIN data.facts THEN Some(data.facts[key])
              ELSE NULL
  IN  IF IsNull(fact) THEN NULL ELSE Some(Val(fact).value)

\* get_fact(key) is called and returns the value or None
get_fact_call(p, key) ==
  /\ pc[p] = "idle"
  /\ ret' = [ret EXCEPT ![p] =
       [RetInit EXCEPT !.op = "get_fact", !.status = "ok", !.name = key,
                       !.rec = get_fact(key)]]
  /\ UNCHANGED <<corevars, memfile>>

\* lines 51-56
delete_fact(p, key) ==
  /\ pc[p] = "idle"
  /\ LET data == _load_memory
     IN  IF key \in DOMAIN data.facts
         THEN /\ memfile' = [data EXCEPT !.facts =
                    [k \in DOMAIN data.facts \ {key} |-> data.facts[k]]]
              /\ ret' = [ret EXCEPT ![p] =
                   [RetInit EXCEPT !.op = "delete_fact", !.status = "ok",
                                   !.name = key, !.flag = TRUE]]
         ELSE /\ memfile' = memfile
              /\ ret' = [ret EXCEPT ![p] =
                   [RetInit EXCEPT !.op = "delete_fact", !.status = "ok",
                                   !.name = key, !.flag = FALSE]]
  /\ UNCHANGED corevars

\* lines 61-66
add_note(p, text) ==
  /\ pc[p] = "idle"
  /\ Len(memfile.notes) < MaxNotes
  /\ LET data == _load_memory
     IN  memfile' = [data EXCEPT !.notes =
                       @ \o <<[text |-> text, created_at |-> now]>>]
  /\ ret' = [ret EXCEPT ![p] =
       [RetInit EXCEPT !.op = "add_note", !.status = "ok", !.name = text]]
  /\ UNCHANGED corevars

\* line 105
clear_all(p) ==
  /\ pc[p] = "idle"
  /\ memfile' = EmptyMemory
  /\ ret' = [ret EXCEPT ![p] =
       [RetInit EXCEPT !.op = "clear_all", !.status = "ok"]]
  /\ UNCHANGED corevars

\* the memory store used by one caller while the clock advances
NextMemory ==
  \/ \E p \in MainProcs, key \in FactKeys, value \in FactValues :
       set_fact(p, key, value)
  \/ \E p \in MainProcs, key \in FactKeys : get_fact_call(p, key)
  \/ \E p \in MainProcs, key \in FactKeys : delete_fact(p, key)
  \/ \E p \in MainProcs, text \in NoteTexts : add_note(p, text)
  \/ \E p \in MainProcs : clear_all(p)
  \/ Tick

SpecMemory == Init /\ [][NextMemory]_vars

\* ------------------------------------------- shelley_api.wait_for_completion
\* what GET /conversation/<id> can answer: agent_working true, false or
\* missing, and the messages with their type and end_of_turn
Responses ==
  LET message(type, end_of_turn) ==
        [type |-> type, end_of_turn |-> end_of_turn]
      turn == <<message("user", FALSE), message("agent", TRUE)>>
  IN  { [agent_working |-> Some(TRUE), messages |-> turn],
        [agent_working |-> NULL, messages |-> turn],
        [agent_working |-> Some(FALSE), messages |-> turn],
        [agent_working |-> Some(FALSE),
         messages |-> <<message("agent", FALSE), message("user", TRUE)>>],
        [agent_working |-> Some(FALSE), messages |-> <<>>] }

\* line 63: start = time.time().  The clock of the model stops at MaxTime,
\* which stands for every later time; the deadline of a call lies within it.
wait_call(p, c, timeout_seconds, poll_interval) ==
  /\ pc[p] = "idle"
  /\ now + timeout_seconds <= MaxTime
  /\ Goto(p, "wt_test",
          [LocInit EXCEPT !.op = "wait", !.conv = c, !.start = now,
                          !.timeout_seconds = timeout_seconds,
                          !.poll_interval = poll_interval])
  /\ UNCHANGED <<dbvars, txvars, ckfile, now, interfered, memfile>>

\* lines 65 and 80: the loop test, and the TimeoutError after the loop
wait_test(p) ==
  /\ pc[p] = "wt_test"
  /\ IF now - loc[p].start < loc[p].timeout_seconds
     THEN Goto(p, "wt_poll", loc[p])
     ELSE Finish(p, Result("wait", "TimeoutError", loc[p]))
  /\ UNCHANGED <<dbvars, txvars, ckfile, now, interfered, memfile>>

\* a poll that returns a response with a finished turn whatever
\* agent_working says
wait_poll_IgnoreWorking(p, failed, response) ==
  /\ pc[p] = "wt_poll"
  /\ IF failed THEN Finish(p, Result("wait", "Raised", loc[p]))
     ELSE IF \E i \in 1..Len(response.messages) :
               /\ response.messages[i].type = "agent"
               /\ response.messages[i].end_of_turn
          THEN Finish(p, [Result("wait", "ok", loc[p]) EXCEPT
                            !.rec = Some(response)])
          ELSE Goto(p, "wt_sleep", loc[p])
  /\ UNCHANGED <<dbvars, txvars, ckfile, now, interfered, memfile>>

\* lines 66-76: one poll.  The request returns within its socket timeout
\* (line 26) or raises (line 30), which ends the call.
wait_poll(p, failed, response) ==
  /\ pc[p] = "wt_poll"
  /\ IF failed THEN Finish(p, Result("wait", "Raised", loc[p]))
     ELSE LET has_complete ==
                \E i \in 1..Len(response.messages) :
                  /\ response.messages[i].type = "agent"
                  /\ response.messages[i].end_of_turn
          IN  IF response.agent_working = Some(FALSE) /\ has_complete
              THEN Finish(p, [Result("wait", "ok", loc[p]) EXCEPT
                                !.rec = Some(response)])
              ELSE Goto(p, "wt_sleep", loc[p])
  /\ UNCHANGED <<dbvars, txvars, ckfile, now, interfered, memfile>>

\* line 78: time.sleep(poll_interval)
wait_sleep(p) ==
  /\ pc[p] = "wt_sleep"
  /\ now' = IF now + loc[p].poll_interval < MaxTime
            THEN now + loc[p].poll_interval ELSE MaxTime
  /\ Goto(p, "wt_test", loc[p])
  /\ UNCHANGED <<dbvars, txvars, ckfile, interfered, memfile>>

\* one caller waits for conversations while the clock advances
NextWait ==
  \/ \E p \in MainProcs, c \in IdPool, timeout_seconds \in 0..MaxTime,
        poll_interval \in {0, 1} :
       wait_call(p, c, timeout_seconds, poll_interval)
  \/ \E p \in MainProcs : wait_test(p)
  \/ \E p \in MainProcs, failed \in BOOLEAN, response \in Responses :
       wait_poll(p, failed, response)
  \/ \E p \in MainProcs : wait_sleep(p)
  \/ Tick

\* the caller keeps running, every request ends, and time passes
SpecWait ==
  /\ Init
  /\ [][NextWait]_vars
  /\ WF_vars(\E p \in MainProcs : wait_test(p))
  /\ WF_vars(\E p \in MainProcs, failed \in BOOLEAN, response \in Responses :
               wait_poll(p, failed, response))
  /\ WF_vars(\E p \in MainProcs : wait_sleep(p))
  /\ WF_vars(Tick)

\* ===================================================================== claims
RowsIn(msgs, c) == {m \in msgs : m.conversation_id = c}
RowsOf(c) == RowsIn(messages, c)
PrefixOf(c, cutoff) == {m \in RowsOf(c) : m.sequence_id <= cutoff}
\* what a copy has to keep of a message
Payload(m) ==
  [sequence_id |-> m.sequence_id, type |-> m.type, llm_data |-> m.llm_data,
   user_data |-> m.user_data, usage_data |-> m.usage_data,
   display_data |-> m.display_data]
MsgIds(rows) == {m.message_id : m \in rows}

\* the rows new are the rows src, one for one, under message ids of their own
IsCopyOf(new, src) ==
  /\ {Payload(m) : m \in new} = {Payload(m) : m \in src}
  /\ Cardinality(new) = Cardinality(src)
  /\ Cardinality(MsgIds(new)) = Cardinality(new)
  /\ MsgIds(new) \cap MsgIds(src) = {}

\* the step in which the call of p (branch or restore) commits and returns
Commits(p) == pc[p] = "br_commit" /\ ret'[p].status = "ok"

\* C1: a branch of C at cutoff S that succeeds (the writer not having
\* appended a message with sequence_id <= S to C during the call) creates
\* exactly one conversation; its messages are the messages of C with
\* sequence_id <= S, one per sequence_id with the same type and payloads,
\* under message ids that are pairwise distinct and that no message had
\* before.
C1_BranchCopiesPrefix ==
  [][\A p \in MainProcs :
       (Commits(p) /\ loc[p].op = "branch" /\ ~interfered[p]) =>
         LET B == ret'[p].id
             src == PrefixOf(loc[p].src, loc[p].cutoff)
             new == RowsIn(messages', B)
         IN  /\ B \notin UsedConvIds
             /\ UsedConvIds' = UsedConvIds \cup {B}
             /\ RowsOf(B) = {}
             /\ IsCopyOf(new, src)
             /\ MsgIds(new) \cap MsgIds(messages) = {}
             /\ messages' \ new = messages]_vars

\* a branch returned a conversation that holds a strict, non-empty prefix of
\* its source
C1_Witness ==
  /\ ret["p1"].op = "branch" /\ ret["p1"].status = "ok"
  /\ RowsOf(ret["p1"].id) # {}
  /\ \E m \in RowsOf(ret["p1"].conv) :
       \A b \in RowsOf(ret["p1"].id) : m.sequence_id > b.sequence_id

\* process p is inside the transaction of branch_conversation
InTransaction(p) == pc[p] \in {"br_insert_msg", "br_commit"}
\* the step is one of process p
StepOf(p) == pc'[p] # pc[p] \/ loc'[p] # loc[p] \/ ret'[p] # ret[p]

\* C2: while a branch is inside its transaction, no reader sees a row of
\* the new conversation, neither the conversation row nor a message row;
\* the conversation row appears only in the commit step and then together
\* with all the copied messages; a crash inside the transaction leaves no
\* row of the new conversation.
C2_BranchIsAllOrNothing ==
  [][\A p \in MainProcs :
       InTransaction(p) =>
         LET B == loc[p].new_id
         IN  /\ B \notin UsedConvIds
             /\ RowsOf(B) = {}
             /\ IF Commits(p)
                THEN /\ B \in UsedConvIds'
                     /\ Cardinality(RowsIn(messages', B)) =
                          Len(loc[p].source_messages)
                ELSE /\ B \notin UsedConvIds'
                     /\ RowsIn(messages', B) = {}]_vars

\* a branch is between two inserts of its copy loop
C2_Witness ==
  /\ pc["p1"] = "br_insert_msg"
  /\ txMsgs["p1"] # {}
  /\ loc["p1"].idx <= Len(loc["p1"].source_messages)

\* C3: when an insert of a branch fails, the call ends with an error and
\* is not taken up again, the transaction is rolled back, and the store
\* holds the rows it held: no step of a branch other than its commit
\* changes a committed row.
C3_FailedBranchLeavesStore ==
  [][\A p \in MainProcs :
       /\ (StepOf(p) /\ ~Commits(p)) => UNCHANGED dbvars
       /\ (StepOf(p) /\ ret'[p].status = "StoreError") =>
            /\ pc[p] \in {"br_insert_conv", "br_insert_msg"}
            /\ pc'[p] = "idle"
            /\ txConvs'[p] = {} /\ txMsgs'[p] = {}]_vars

\* a message insert failed after the conversation row and one message row
\* had been inserted
C3_Witness ==
  /\ ret["p1"].op = "branch" /\ ret["p1"].status = "StoreError"
  /\ ret["p1"].idx = 2

\* the last call of p was a branch that returned a new conversation
Returned(p) == ret[p].op = "branch" /\ ret[p].status = "ok"

\* C4: a branch adds rows under the id it returns only: the id differs
\* from the source's, the source's rows are untouched, the new rows have
\* message ids of their own.  Once the branch has returned B from C, a step
\* that changes the messages of C leaves those of B unchanged and a step
\* that changes the messages of B leaves those of C unchanged, and no row
\* of either is removed or altered.
C4_BranchIsIndependent ==
  [][\A p \in MainProcs :
       /\ Commits(p) =>
            /\ ret'[p].id # loc[p].src
            /\ RowsIn(messages', loc[p].src) = RowsOf(loc[p].src)
            /\ RowsIn(messages', ret'[p].id) # {}
       /\ (Returned(p) /\ ret'[p] = ret[p]) =>
            LET B == ret[p].id
                C == ret[p].conv
            IN  /\ B # C
                /\ MsgIds(RowsOf(B)) \cap MsgIds(RowsOf(C)) = {}
                /\ RowsOf(B) \subseteq RowsIn(messages', B)
                /\ RowsOf(C) \subseteq RowsIn(messages', C)
                /\ RowsIn(messages', C) # RowsOf(C) =>
                     RowsIn(messages', B) = RowsOf(B)
                /\ RowsIn(messages', B) # RowsOf(B) =>
                     RowsIn(messages', C) = RowsOf(C)]_vars

\* after the branch returned, the writer appended to the source and to the
\* branch
C4_Witness ==
  /\ Returned("p1")
  /\ \E m \in RowsOf(ret["p1"].id) :
       Payload(m) \notin {Payload(x) : x \in RowsOf(ret["p1"].conv)}
  /\ \E m \in RowsOf(ret["p1"].conv) :
       Payload(m) \notin {Payload(x) : x \in RowsOf(ret["p1"].id)}

\* C5: a branch of an existing conversation that has no message with
\* sequence_id <= cutoff ends with EmptyRange, opens no transaction and
\* leaves the store as it is.
C5_EmptyPrefixRejected ==
  [][\A p \in MainProcs :
       (pc[p] = "br_msgs" /\ StepOf(p) /\ loc[p].op = "branch"
          /\ PrefixOf(loc[p].src, loc[p].cutoff) = {}) =>
         /\ pc'[p] = "idle"
         /\ ret'[p].status = "EmptyRange"
         /\ UNCHANGED <<dbvars, txvars>>]_vars

\* a branch of a conversation that has messages, all above the cutoff,
\* was rejected
C5_Witness ==
  /\ ret["p1"].op = "branch" /\ ret["p1"].status = "EmptyRange"
  /\ RowsOf(ret["p1"].conv) # {}

\* what process p is calling in a step that starts a call
Called(p) == IF pc'[p] = "idle" THEN ret'[p] ELSE loc'[p]

\* C6: a branch of a conversation id that has no row, and a restore of a
\* (conversation_id, name) under whose key no checkpoint is stored, end at
\* once with NotFound; store, transaction and checkpoint file are as before.
C6_NotFoundBeforeMutation ==
  [][\A p \in MainProcs :
       (pc[p] = "idle" /\ StepOf(p)) =>
         /\ (Called(p).op = "branch" /\ Called(p).conv \notin UsedConvIds) =>
              /\ pc'[p] = "idle" /\ ret'[p].status = "NotFound"
              /\ UNCHANGED <<dbvars, txvars, ckfile>>
         /\ (Called(p).op = "restore"
               /\ Key(Called(p).conv, Called(p).name) \notin DOMAIN ckfile) =>
              /\ pc'[p] = "idle" /\ ret'[p].status = "NotFound"
              /\ UNCHANGED <<dbvars, txvars, ckfile>>]_vars

\* a restore under a name that is not stored was rejected while the file
\* holds a checkpoint under another name
C6_Witness ==
  /\ ret["p1"].op = "restore" /\ ret["p1"].status = "NotFound"
  /\ ckfile # EmptyFile
  /\ ret["p1"].conv \in UsedConvIds

\* the checkpoint a restore in progress was called for
CheckpointOf(p) == ckfile[Key(loc[p].conv, loc[p].name)]

\* C7: a restore of the stored checkpoint (C, name) with sequence pointer S
\* ends like branch(C, S): it is rejected with EmptyRange exactly when C
\* has no message with sequence_id <= S, and when it commits (the writer not
\* having appended a message with sequence_id <= S meanwhile) the one new
\* conversation holds the copies of the messages of C with
\* sequence_id <= S, whatever was appended to C after the save.
C7_RestoreIsBranchAtCheckpoint ==
  [][\A p \in MainProcs :
       loc[p].op = "restore" =>
         LET C == CheckpointOf(p).conversation_id
             S == CheckpointOf(p).sequence_id
         IN  /\ (pc[p] = "br_msgs" /\ StepOf(p)) =>
                  ((pc'[p] = "idle" /\ ret'[p].status = "EmptyRange")
                     <=> PrefixOf(C, S) = {})
             /\ (Commits(p) /\ ~interfered[p]) =>
                  /\ ret'[p].id \notin UsedConvIds
                  /\ UsedConvIds' = UsedConvIds \cup {ret'[p].id}
                  /\ IsCopyOf(RowsIn(messages', ret'[p].id), PrefixOf(C, S))
                  /\ messages' \ RowsIn(messages', ret'[p].id) = messages]_vars

\* a restore returned a conversation that lacks a message the source got
\* after the checkpoint
C7_Witness ==
  /\ ret["p1"].op = "restore" /\ ret["p1"].status = "ok"
  /\ RowsOf(ret["p1"].id) # {}
  /\ \E m \in RowsOf(ret["p1"].conv) :
       \A b \in RowsOf(ret["p1"].id) : m.sequence_id > b.sequence_id

\* the key of the checkpoint file the call in progress of p works on
KeyOf(p) == Key(loc[p].conv, loc[p].name)

\* C8: a save without an explicit sequence of a conversation that has a
\* message ends with a record stored under (C, name): the get that follows
\* returns a record with the arguments as conversation_id and name and,
\* the writer not having appended to C meanwhile, with the largest
\* sequence_id of C as sequence_id.
C8_SaveThenGet ==
  [][\A p \in MainProcs :
       (/\ loc[p].op = "save" /\ IsNull(loc[p].seq)
        /\ pc[p] \in {"sv_summary", "sv_load", "sv_write"}
        /\ pc'[p] = "idle") =>
         LET got == FileGet(ckfile', KeyOf(p))
         IN  /\ ret'[p].status = "ok"
             /\ ~IsNull(got)
             /\ Val(got).conversation_id = loc[p].conv
             /\ Val(got).name = loc[p].name
             /\ ~interfered[p] =>
                  Val(got).sequence_id = Max(SeqIdsOf(loc[p].conv))]_vars

\* the positions of the list all that hold a record of the pair (c, name)
Listed(all, c, name) ==
  {i \in 1..Len(all) : all[i].conversation_id = c /\ all[i].name = name}

\* C9: whenever the file changes, list() shows one record per key and no
\* two records with the same (conversation_id, name); the write of a save
\* leaves exactly one record of its pair in the list, with the sequence_id
\* of this save, also when a record with another sequence_id was stored
\* under the pair, and leaves the records under every other key as they
\* were.
C9_SaveOverwrites ==
  [][LET all == list_checkpoints(NULL)'
     IN  /\ ckfile' # ckfile =>
              /\ Len(all) = Cardinality(DOMAIN ckfile')
              /\ \A i \in 1..Len(all) :
                   Listed(all, all[i].conversation_id, all[i].name) = {i}
         /\ \A p \in MainProcs :
              (pc[p] = "sv_write" /\ StepOf(p)) =>
                /\ Cardinality(Listed(all, loc[p].conv, loc[p].name)) = 1
                /\ ckfile'[KeyOf(p)].sequence_id = Val(loc[p].sequence_id)
                /\ DOMAIN ckfile' = DOMAIN ckfile \cup {KeyOf(p)}
                /\ \A k \in DOMAIN ckfile \ {KeyOf(p)} :
                     ckfile'[k] = ckfile[k]]_vars

\* a save replaced a record with another sequence_id while a record under
\* another key is stored
C9_Witness ==
  /\ ret["p1"].op = "save" /\ ret["p1"].status = "ok"
  /\ ~IsNull(ret["p1"].old)
  /\ Val(ret["p1"].old).sequence_id # Val(ret["p1"].rec).sequence_id
  /\ Cardinality(DOMAIN ckfile) = 2
  /\ Len(list_checkpoints(NULL)) = 2

\* C10: a delete of a pair under whose key nothing is stored returns false
\* at once and the file is as before; a delete of a stored pair goes on to
\* write, returns true, the get that follows finds nothing, and the
\* records under every other key are as they were.
C10_DeleteFrame ==
  [][\A p \in MainProcs :
       /\ (pc[p] = "idle" /\ StepOf(p) /\ Called(p).op = "delete") =>
            IF Key(Called(p).conv, Called(p).name) \in DOMAIN ckfile
            THEN pc'[p] = "dl_write" /\ ckfile' = ckfile
            ELSE /\ pc'[p] = "idle"
                 /\ ret'[p].status = "ok" /\ ret'[p].flag = FALSE
                 /\ ckfile' = ckfile
       /\ (pc[p] = "dl_write" /\ StepOf(p)) =>
            /\ pc'[p] = "idle"
            /\ ret'[p].status = "ok" /\ ret'[p].flag = TRUE
            /\ IsNull(FileGet(ckfile', KeyOf(p)))
            /\ DOMAIN ckfile' = DOMAIN ckfile \ {KeyOf(p)}
            /\ \A k \in DOMAIN ckfile' : ckfile'[k] = ckfile[k]]_vars

\* a delete returned true and a record under another key is still stored
C10_Witness ==
  /\ ret["p1"].op = "delete" /\ ret["p1"].flag
  /\ ckfile # EmptyFile

\* C11: the write of a save or a delete replaces the whole file by what
\* the caller loaded, with its own key changed: under every other key the
\* file then holds what it held when the caller loaded it, so a record
\* another process stored in between is gone and one it deleted in between
\* is back, while both calls return success.
C11_LastWriterWins ==
  [][\A p \in Procs :
       (pc[p] \in {"sv_write", "dl_write"} /\ StepOf(p)) =>
         /\ ret'[p].status = "ok"
         /\ \A k \in (DOMAIN ckfile \cup DOMAIN ckfile') \ {KeyOf(p)} :
              FileGet(ckfile', k) = FileGet(loc[p].data, k)]_vars

\* both processes made one call, saves under different names that both
\* returned a record, and the file holds only one of the two records
C11_Witness ==
  /\ \A p \in Procs : pc[p] = "idle" /\ ret[p].op = "save"
                        /\ ret[p].status = "ok"
  /\ ret["p1"].name # ret["p2"].name
  /\ \E p \in Procs :
       /\ Key(ret[p].conv, ret[p].name) \notin DOMAIN ckfile
       /\ \A q \in Procs \ {p} :
            FileGet(ckfile, Key(ret[q].conv, ret[q].name)) = ret[q].rec

\* C12: a save of a conversation id that has no row ends at once with
\* NotFound; a save without sequence ends with NotFound at the resolution
\* of the sequence exactly when the conversation has no messages; in both
\* cases tables and checkpoint file are as before, a record stored under
\* the same (C, name) included.
C12_SaveNotFound ==
  [][\A p \in MainProcs :
       /\ (pc[p] = "idle" /\ StepOf(p) /\ Called(p).op = "save"
             /\ Called(p).conv \notin UsedConvIds) =>
            /\ pc'[p] = "idle" /\ ret'[p].status = "NotFound"
            /\ UNCHANGED <<dbvars, txvars, ckfile>>
       /\ (pc[p] = "sv_latest" /\ StepOf(p)) =>
            /\ (pc'[p] = "idle" /\ ret'[p].status = "NotFound")
                 <=> RowsOf(loc[p].conv) = {}
            /\ UNCHANGED <<dbvars, txvars, ckfile>>]_vars

\* a save without sequence of a conversation without messages was rejected
\* while a record is stored under its (C, name)
C12_Witness ==
  /\ ret["p1"].op = "save" /\ ret["p1"].status = "NotFound"
  /\ ret["p1"].conv \in UsedConvIds
  /\ Key(ret["p1"].conv, ret["p1"].name) \in DOMAIN ckfile

\* C13: a save with an explicit sequence S of a conversation that has no
\* message with sequence_id <= S ends with EmptyRange and the file is as
\* before; and every record a save writes has a sequence_id with a
\* non-empty prefix of its conversation.
C13_EmptyRangeSave ==
  [][\A p \in MainProcs :
       /\ (pc[p] = "sv_summary" /\ StepOf(p) /\ ~IsNull(loc[p].seq)
             /\ PrefixOf(loc[p].conv, Val(loc[p].seq)) = {}) =>
            /\ pc'[p] = "idle" /\ ret'[p].status = "EmptyRange"
            /\ ckfile' = ckfile
       /\ (pc[p] = "sv_write" /\ StepOf(p)) =>
            PrefixOf(loc[p].conv, ckfile'[KeyOf(p)].sequence_id) # {}]_vars

\* the slug of the committed conversation row with the given id
SlugOf(convs, id) == (CHOOSE r \in convs : r.conversation_id = id).slug

\* C14: a restore that commits gives the new conversation the slug
\* "<stored slug>-from-<name>", with "conversation" in place of a stored
\* slug that is null or empty.
C14_RestoreSlug ==
  [][\A p \in MainProcs :
       (Commits(p) /\ loc[p].op = "restore") =>
         SlugOf(conversations', ret'[p].id) =
           Some(OrElse(CheckpointOf(p).slug, "conversation")
                  \o "-from-" \o loc[p].name)]_vars

\* the call of estimate_tokens that process p makes in this step
Estimates(p) == StepOf(p) /\ ret'[p].op = "estimate"

\* C15: a call of estimate_tokens that returns has estimated = true
\* exactly when both sums of the usage pass were zero, so that the
\* length pass was used; a conversation whose only message is a user
\* message without usage data and with 40 characters of llm_data gives
\* input 10, output 0, estimated true.
C15_EstimatedIffFallback ==
  [][\A p \in MainProcs :
       (Estimates(p) /\ ret'[p].status = "ok") =>
         LET msgs == get_messages(ret'[p].conv, NULL)
             primary == PrimaryPass(msgs, Len(msgs))
             r == Val(ret'[p].rec)
         IN  /\ r.estimated <=> (primary.input = 0 /\ primary.output = 0)
             /\ (/\ Len(msgs) = 1 /\ msgs[1].type = "user"
                 /\ IsNull(msgs[1].usage_data)
                 /\ ~IsNull(msgs[1].llm_data)
                 /\ Val(msgs[1].llm_data).len = 40) =>
                  (r.input_tokens = 10 /\ r.output_tokens = 0
                     /\ r.estimated)]_vars

\* C16: every call of estimate_tokens returns, whatever the payloads of
\* the messages, with total_tokens = input_tokens + output_tokens.
C16_EstimateNeverFails ==
  [][\A p \in MainProcs :
       Estimates(p) =>
         /\ ret'[p].status = "ok"
         /\ Val(ret'[p].rec).total_tokens =
              Val(ret'[p].rec).input_tokens
                + Val(ret'[p].rec).output_tokens]_vars

\* the call of get_message_summary that process p makes in this step, and
\* the message it is called for
Summarizes(p) == StepOf(p) /\ ret'[p].op = "summary"
MessageOf(id) == CHOOSE m \in messages : m.message_id = id

\* the payload is malformed: not valid JSON, not an object, a Content that
\* is not a list of objects, or a block whose Text is not a string
Malformed(llm_data) ==
  /\ ~IsNull(llm_data)
  /\ LET data == Val(llm_data).json
     IN  \/ data.t # "obj"
         \/ /\ "Content" \in DOMAIN data.o
            /\ \/ data.o["Content"].t # "list"
               \/ \E i \in 1..Len(data.o["Content"].l) :
                    LET block == data.o["Content"].l[i]
                    IN  \/ block.t # "obj"
                        \/ /\ "Text" \in DOMAIN block.o
                           /\ block.o["Text"].t # "str"

\* the generic label of a message type
Generic(type) ==
  IF type = "user" THEN Summary("User: (message)", <<>>, "")
  ELSE Summary("Agent: (response)", <<>>, "")

\* C17: every call of get_message_summary returns a summary, and for a
\* user or agent message with a malformed llm_data it returns the generic
\* label of the type.
C17_SummaryNeverRaises ==
  [][\A p \in MainProcs :
       Summarizes(p) =>
         LET msg == MessageOf(ret'[p].idx)
         IN  /\ ret'[p].status = "ok"
             /\ (msg.type \in {"user", "agent"} /\ Malformed(msg.llm_data))
                  => Val(ret'[p].rec) = Generic(msg.type)]_vars

\* the blocks of a payload that is an object with a list as Content, and
\* the positions of its blocks of kind 2 with a non-empty text
Blocks(llm_data) == Val(llm_data).json.o["Content"].l
TextBlocks(llm_data) ==
  {i \in 1..Len(Blocks(llm_data)) :
     LET block == Blocks(llm_data)[i]
     IN  /\ block.t = "obj"
         /\ "Type" \in DOMAIN block.o /\ block.o["Type"] = JNum(2)
         /\ "Text" \in DOMAIN block.o /\ block.o["Text"].t = "str"
         /\ Len(block.o["Text"].s) > 0}
FirstText(llm_data) ==
  Blocks(llm_data)[Min(TextBlocks(llm_data))].o["Text"].s

\* the payload is an object with a list as Content that has a non-empty
\* text block, and the blocks before the first of them are objects whose
\* Text, if they have one, is a string
HasFirstText(llm_data) ==
  /\ ~IsNull(llm_data)
  /\ Val(llm_data).json.t = "obj"
  /\ "Content" \in DOMAIN Val(llm_data).json.o
  /\ Val(llm_data).json.o["Content"].t = "list"
  /\ TextBlocks(llm_data) # {}
  /\ \A i \in 1..(Min(TextBlocks(llm_data)) - 1) :
       LET block == Blocks(llm_data)[i]
       IN  /\ block.t = "obj"
           /\ "Text" \in DOMAIN block.o => block.o["Text"].t = "str"

\* the summary of a text: label, at most 100 characters, the ellipsis when
\* the text is longer
TextSummary(label, text) ==
  Summary(label, SubSeq(text, 1, Min({Len(text), 100})),
          IF Len(text) > 100 THEN "..." ELSE "")

\* C18: for an agent message with a well-formed payload the summary is
\* that of the first non-empty text block whenever the list has one,
\* wherever a tool-use block stands; "Agent: [using <tool>]" is returned
\* only when the list has no non-empty text block.
C18_TextBeforeTool ==
  [][\A p \in MainProcs :
       Summarizes(p) =>
         LET msg == MessageOf(ret'[p].idx)
         IN  (/\ msg.type = "agent" /\ ~IsNull(msg.llm_data)
              /\ Val(msg.llm_data).json.t = "obj"
              /\ ~Malformed(msg.llm_data)
              /\ "Content" \in DOMAIN Val(msg.llm_data).json.o) =>
               /\ TextBlocks(msg.llm_data) # {} =>
                    Val(ret'[p].rec) =
                      TextSummary("Agent: ", FirstText(msg.llm_data))
               /\ Val(ret'[p].rec).label = "Agent: [using " =>
                    TextBlocks(msg.llm_data) = {}]_vars

\* C19: for a user message whose first non-empty text block has n
\* characters the summary is "User: ", the first min(n, 100) characters
\* of the text, and "..." exactly when n > 100.
C19_UserTruncation ==
  [][\A p \in MainProcs :
       Summarizes(p) =>
         LET msg == MessageOf(ret'[p].idx)
         IN  (msg.type = "user" /\ HasFirstText(msg.llm_data)) =>
               LET text == FirstText(msg.llm_data)
                   r == Val(ret'[p].rec)
               IN  /\ ret'[p].status = "ok"
                   /\ r.label = "User: "
                   /\ Len(r.body) = Min({Len(text), 100})
                   /\ r.body = SubSeq(text, 1, Len(r.body))
                   /\ r.tail = IF Len(text) > 100 THEN "..." ELSE ""]_vars

\* the summary of a user message of exactly 100 characters was returned:
\* all of the text and no ellipsis
C19_Witness ==
  /\ ret["p1"].op = "summary" /\ ret["p1"].status = "ok"
  /\ MessageOf(ret["p1"].idx).type = "user"
  /\ Len(Val(ret["p1"].rec).body) = 100
  /\ Val(ret["p1"].rec).tail = ""

\* the keys of the file whose records list(f) has to show: all of them when
\* no filter is given, else those of conversation f
KeysFor(f) ==
  {k \in DOMAIN ckfile : f = "" \/ ckfile[k].conversation_id = f}

\* C20: a call of list returns each stored record once, those of the given
\* conversation only when a filter is given, later created_at before
\* earlier, and the records without created_at after all the others.
C20_ListSorted ==
  [][\A p \in MainProcs :
       (StepOf(p) /\ ret'[p].op = "list") =>
         LET all == ret'[p].list
             keys == KeysFor(ret'[p].conv)
         IN  /\ Len(all) = Cardinality(keys)
             /\ {all[i] : i \in 1..Len(all)} = {ckfile[k] : k \in keys}
             /\ \A i, j \in 1..Len(all) :
                  i < j =>
                    IF "created_at" \in DOMAIN all[i]
                    THEN "created_at" \in DOMAIN all[j] =>
                           all[i].created_at >= all[j].created_at
                    ELSE "created_at" \notin DOMAIN all[j]]_vars

\* an unfiltered list was returned that shows three records: the two with
\* created_at, the later one first, and then the record without
C20_Witness ==
  /\ ret["p1"].op = "list" /\ ret["p1"].conv = ""
  /\ Len(ret["p1"].list) = 3
  /\ "created_at" \in DOMAIN ret["p1"].list[2]
  /\ ret["p1"].list[1].created_at > ret["p1"].list[2].created_at
  /\ "created_at" \notin DOMAIN ret["p1"].list[3]

\* the committed conversation row with the given id
RowOf(convs, id) == CHOOSE r \in convs : r.conversation_id = id

\* C21: the conversation row a branch commits has user_initiated = true,
\* archived = false, created_at = updated_at = the time the branch took,
\* and the cwd of the source row, or the default "/home/exedev" when the
\* cwd of the source row is null.
C21_BranchRow ==
  [][\A p \in MainProcs :
       Commits(p) =>
         LET row == RowOf(conversations', ret'[p].id)
             source == RowOf(conversations, loc[p].src)
         IN  /\ row.user_initiated = TRUE
             /\ row.archived = FALSE
             /\ row.created_at = loc[p].stamp
             /\ row.updated_at = loc[p].stamp
             /\ row.cwd = IF IsNull(source.cwd) THEN Some("/home/exedev")
                          ELSE source.cwd]_vars

\* the record rec is the checkpoint of the pair (c, name)
IsOfPair(rec, c, name) == rec.conversation_id = c /\ rec.name = name

\* C22: checkpoints are keyed by the pair (conversation_id, name), a colon
\* in the id or in the name included: a get of (c, name) returns nothing
\* or the record of (c, name), and the write of a save or of a delete of
\* (c, name) leaves every record of another pair stored as it was and
\* brings in no record of another pair.
C22_KeyedByPair ==
  [][\A p \in MainProcs :
       /\ (StepOf(p) /\ ret'[p].op = "get" /\ ~IsNull(ret'[p].rec)) =>
            IsOfPair(Val(ret'[p].rec), ret'[p].conv, ret'[p].name)
       /\ (pc[p] \in {"sv_write", "dl_write"} /\ StepOf(p)) =>
            /\ \A k \in DOMAIN ckfile :
                 ~IsOfPair(ckfile[k], loc[p].conv, loc[p].name) =>
                   k \in DOMAIN ckfile' /\ ckfile'[k] = ckfile[k]
            /\ \A k \in DOMAIN ckfile' :
                 ~IsOfPair(ckfile'[k], loc[p].conv, loc[p].name) =>
                   k \in DOMAIN ckfile /\ ckfile'[k] = ckfile[k]]_vars

\* C23: the fetch of the prefix and the inserts of a branch are one
\* transaction: whatever the writer appends during the call, the
\* conversation a branch commits holds the copies of exactly the messages
\* the source has with sequence_id <= cutoff at the moment of the commit.
C23_BranchAtomic ==
  [][\A p \in MainProcs :
       (Commits(p) /\ loc[p].op = "branch") =>
         IsCopyOf(RowsIn(messages', ret'[p].id),
                  PrefixOf(loc[p].src, loc[p].cutoff))]_vars

\* C24: at every moment the committed store has one row per
\* conversation_id and one per message_id, no two messages of one
\* conversation with the same sequence_id, and every message in exactly
\* one conversation that has a row; branches (of branches too) and
\* restores, committed, rejected or crashed, and the appends of the writer
\* keep it so.
C24_IdsUnique ==
  /\ \A r1, r2 \in conversations :
       r1.conversation_id = r2.conversation_id => r1 = r2
  /\ \A m1, m2 \in messages :
       /\ m1.message_id = m2.message_id => m1 = m2
       /\ (m1.conversation_id = m2.conversation_id
             /\ m1.sequence_id = m2.sequence_id) => m1 = m2
  /\ \A m \in messages :
       Cardinality({r \in conversations :
                      r.conversation_id = m.conversation_id}) = 1

\* a branch of a branch was committed after the writer had appended to the
\* first branch
C24_Witness ==
  /\ ret["p1"].status = "ok" /\ ret["p1"].op = "branch"
  /\ ret["p1"].conv = IdOrder[2] /\ ret["p1"].id = IdOrder[3]
  /\ Cardinality(RowsOf(IdOrder[2])) > Cardinality(RowsOf(IdOrder[1]))
  /\ RowsOf(IdOrder[3]) # {}

\* the operations that only read the relational store
ReadOps ==
  {"get_conversation", "get_messages", "list_conversations", "estimate",
   "summary", "save", "get", "list", "delete"}

\* C25: no step of a caller removes or alters a committed row; the read
\* operations and the checkpoint operations save, get, list and delete
\* leave both tables as they are; a branch or a restore changes the tables
\* in its commit only, and then by adding one conversation row under an id
\* no row had, and message rows under that id, the row and the messages of
\* the source staying as they were.
C25_NoUpdateNoDelete ==
  [][\A p \in MainProcs :
       StepOf(p) =>
         /\ conversations \subseteq conversations'
         /\ messages \subseteq messages'
         /\ (Called(p).op \in ReadOps \/ loc[p].op \in ReadOps) =>
              UNCHANGED dbvars
         /\ ~Commits(p) => UNCHANGED dbvars
         /\ Commits(p) =>
              LET B == ret'[p].id
              IN  /\ B \notin UsedConvIds /\ B # loc[p].src
                  /\ \A r \in conversations' \ conversations :
                       r.conversation_id = B
                  /\ \A m \in messages' \ messages : m.conversation_id = B
                  /\ RowsIn(messages', loc[p].src) = RowsOf(loc[p].src)
                  /\ get_conversation(loc[p].src) \in
                       {Some(r) : r \in conversations'}]_vars

\* a restore committed a copy while the source holds a message above the
\* checkpoint, and both tables still hold every row of the source
C25_Witness ==
  /\ ret["p1"].op = "restore" /\ ret["p1"].status = "ok"
  /\ Cardinality(RowsOf(ret["p1"].conv)) > Cardinality(RowsOf(ret["p1"].id))
  /\ RowsOf(ret["p1"].id) # {}

\* the value stored under key k in the memory file f, None when there is
\* none
StoredValue(f, k) ==
  IF k \in DOMAIN f.facts THEN Some(f.facts[k].value) ELSE NULL

\* the facts of f other than k
OtherFacts(f, k) == [x \in DOMAIN f.facts \ {k} |-> f.facts[x]]

\* C27: no fact is stored at the start; set_fact(k, v) makes v the value of
\* k, delete_fact(k) and clear_all make it None, and nothing else changes
\* the value of a key; get_fact(k) returns the value of k; delete_fact(k)
\* returns True exactly when k was stored; set_fact and delete_fact leave
\* the notes and the other facts as they were; add_note puts one note with
\* its text after the notes there were and leaves the facts as they were.
C27_MemoryStore ==
  /\ \A k \in FactKeys : IsNull(StoredValue(memfile, k))
  /\ [][\A p \in MainProcs :
          (memfile' # memfile \/ ret'[p] # ret[p]) =>
            LET op == ret'[p].op
                k == ret'[p].name
            IN  /\ op = "set_fact" =>
                     /\ StoredValue(memfile', k) = ret'[p].rec
                     /\ OtherFacts(memfile', k) = OtherFacts(memfile, k)
                     /\ memfile'.notes = memfile.notes
                /\ op = "delete_fact" =>
                     /\ ret'[p].flag <=> k \in DOMAIN memfile.facts
                     /\ IsNull(StoredValue(memfile', k))
                     /\ OtherFacts(memfile', k) = OtherFacts(memfile, k)
                     /\ memfile'.notes = memfile.notes
                /\ op = "clear_all" =>
                     \A x \in FactKeys : IsNull(StoredValue(memfile', x))
                /\ op = "add_note" =>
                     /\ Len(memfile'.notes) = Len(memfile.notes) + 1
                     /\ SubSeq(memfile'.notes, 1, Len(memfile.notes)) =
                          memfile.notes
                     /\ memfile'.notes[Len(memfile'.notes)].text = k
                     /\ memfile'.facts = memfile.facts
                /\ op = "get_fact" =>
                     /\ ret'[p].rec = StoredValue(memfile, k)
                     /\ memfile' = memfile]_vars

\* get_fact returned None for a key that was set and then deleted, while
\* another fact, set twice, and two notes are stored
C27_Witness ==
  /\ ret["p1"].op = "get_fact" /\ IsNull(ret["p1"].rec)
  /\ Len(memfile.notes) = 2
  /\ \E k \in DOMAIN memfile.facts :
       memfile.facts[k].updated_at > 0 /\ memfile.facts[k].value = ""

\* the response has agent_working false and an agent message with end_of_turn
Complete(response) ==
  /\ response.agent_working = Some(FALSE)
  /\ \E i \in 1..Len(response.messages) :
       /\ response.messages[i].type = "agent"
       /\ response.messages[i].end_of_turn

\* C26: every call of wait_for_completion ends; when it returns, what it
\* returns is the response of the poll of that step, with agent_working
\* false and an agent message with end_of_turn; a loop test made when
\* timeout_seconds have passed since the start ends the call with
\* TimeoutError, and TimeoutError is raised only then.
C26_WaitEnds ==
  /\ [][\A p \in MainProcs :
          /\ (StepOf(p) /\ ret'[p].op = "wait" /\ ret'[p].status = "ok") =>
               /\ pc[p] = "wt_poll"
               /\ ~IsNull(ret'[p].rec)
               /\ Complete(Val(ret'[p].rec))
               /\ Val(ret'[p].rec).agent_working # Some(TRUE)
          /\ (StepOf(p) /\ ret'[p].op = "wait"
                /\ ret'[p].status = "TimeoutError") =>
               /\ pc[p] = "wt_test"
               /\ now - loc[p].start >= loc[p].timeout_seconds
          /\ (StepOf(p) /\ pc[p] = "wt_test"
                /\ now - loc[p].start >= loc[p].timeout_seconds) =>
               /\ pc'[p] = "idle"
               /\ ret'[p].status = "TimeoutError"]_vars
  /\ \A p \in MainProcs : (pc[p] # "idle") ~> (pc[p] = "idle")

\* a call with a positive timeout has polled without finding the turn
\* finished, does not sleep, and its time is up: the next loop test raises
C26_Witness ==
  /\ pc["p1"] = "wt_sleep"
  /\ loc["p1"].timeout_seconds > 0 /\ loc["p1"].poll_interval = 0
  /\ now - loc["p1"].start >= loc["p1"].timeout_seconds

====
